---- MODULE Spec2Model ----
(***************************************************************************)
(* Voice-assistant orchestrator (ndb77/home-automation): the wake-word ->  *)
(* capture -> dispatch -> respond loop of VoiceAssistant.run with its      *)
(* collaborators TextToSpeech, MusicPlayer, OllamaClient, WakeWordDetector *)
(* and the background speech / playback-monitor workers.                   *)
(*                                                                         *)
(* Python strings are sequences of one-character strings, so that lower(), *)
(* strip(), replace() and the substring test are computed, not assumed.    *)
(***************************************************************************)
EXTENDS Integers, Sequences, FiniteSets, TLC

(* ------------------------------ bounds -------------------------------- *)
\* DetectionEvents the detector yields in one run of the loop
MaxEvents == 2
\* calls of VoiceAssistant.stop() made by a caller other than run()
MaxExtStops == 1
\* calls made on a TextToSpeech and a MusicPlayer by their caller
MaxCalls == 3
\* the largest sample rate the wake-word stream is opened with
MaxWakeRate == 7
\* frames WakeWordDetector.listen reads
MaxFrames == 5
\* tenths of a second the fallback detector is followed after listen() starts
MaxElapsed == 230

(* --------------------------- Python strings --------------------------- *)
LowerChar(c) ==
    CASE c = "A" -> "a" [] c = "B" -> "b" [] c = "C" -> "c" [] c = "D" -> "d"
      [] c = "E" -> "e" [] c = "F" -> "f" [] c = "G" -> "g" [] c = "H" -> "h"
      [] c = "I" -> "i" [] c = "J" -> "j" [] c = "K" -> "k" [] c = "L" -> "l"
      [] c = "M" -> "m" [] c = "N" -> "n" [] c = "O" -> "o" [] c = "P" -> "p"
      [] c = "Q" -> "q" [] c = "R" -> "r" [] c = "S" -> "s" [] c = "T" -> "t"
      [] c = "U" -> "u" [] c = "V" -> "v" [] c = "W" -> "w" [] c = "X" -> "x"
      [] c = "Y" -> "y" [] c = "Z" -> "z" [] OTHER -> c

\* str.lower()
Lower(s) ==
    [i \in 1..Len(s) |-> LowerChar(s[i])]

IsSpace(c) ==
    c = " "

\* str.strip()
Strip(s) ==
    LET keep == {i \in 1..Len(s) : ~IsSpace(s[i])}
        Min(S) == CHOOSE x \in S : \A y \in S : x <= y
        Max(S) == CHOOSE x \in S : \A y \in S : x >= y
    IN  IF keep = {} THEN <<>> ELSE SubSeq(s, Min(keep), Max(keep))

\* s.startswith(w, i - 1)
StartsAt(s, w, i) ==
    /\ i + Len(w) - 1 <= Len(s)
    /\ SubSeq(s, i, i + Len(w) - 1) = w

\* w in s
Contains(w, s) ==
    \E i \in 1..(Len(s) + 1) : StartsAt(s, w, i)

RECURSIVE ReplaceFrom(_, _, _)
ReplaceFrom(s, w, i) ==
    IF i > Len(s) THEN <<>>
    ELSE IF StartsAt(s, w, i) THEN ReplaceFrom(s, w, i + Len(w))
    ELSE <<s[i]>> \o ReplaceFrom(s, w, i + 1)

\* s.replace(w, "") for a non-empty w: left to right, non-overlapping
Replace(s, w) ==
    ReplaceFrom(s, w, 1)

\* a slice that keeps everything
Prefix_unlimited(s, n) ==
    s

\* s[:n]
Prefix(s, n) ==
    SubSeq(s, 1, IF Len(s) < n THEN Len(s) ELSE n)

Digit(d) ==
    <<"0", "1", "2", "3", "4", "5", "6", "7", "8", "9">>[d + 1]

RECURSIVE Str(_)
\* str(n) for n >= 0
Str(n) ==
    IF n < 10 THEN <<Digit(n)>> ELSE Str(n \div 10) \o <<Digit(n % 10)>>

\* Optional[str]
None ==
    [some |-> FALSE, text |-> <<>>]

Some(s) ==
    [some |-> TRUE, text |-> s]

\* truthiness of an Optional[str]: None and "" are falsy
Truthy(o) ==
    o.some /\ o.text # <<>>

(* ------------------------- fixed phrases ------------------------------ *)
\* assistant.py:137
SORRY ==
    <<"S", "o", "r", "r", "y", ",", " ", "I", " ", "d", "i", "d", "n", "'", "t", " ", "c", "a", "t", "c", "h", " ", "t", "h", "a", "t", ".">>
\* assistant.py:145
NOT_SURE ==
    <<"I", "'", "m", " ", "n", "o", "t", " ", "s", "u", "r", "e", " ", "h", "o", "w", " ", "t", "o", " ", "h", "e", "l", "p", " ", "w", "i", "t", "h", " ", "t", "h", "a", "t", ".">>
\* assistant.py:85
STOPPING ==
    <<"S", "t", "o", "p", "p", "i", "n", "g", " ", "m", "u", "s", "i", "c", " ", "p", "l", "a", "y", "b", "a", "c", "k", ".">>
\* assistant.py:102
NO_MUSIC ==
    <<"N", "o", " ", "m", "u", "s", "i", "c", " ", "f", "i", "l", "e", "s", " ", "f", "o", "u", "n", "d", ".">>
W_play ==
    <<"p", "l", "a", "y">>
W_music ==
    <<"m", "u", "s", "i", "c">>
W_song ==
    <<"s", "o", "n", "g">>
W_stop ==
    <<"s", "t", "o", "p">>
W_track ==
    <<"t", "r", "a", "c", "k">>
W_please ==
    <<"p", "l", "e", "a", "s", "e">>
W_can ==
    <<"c", "a", "n">>
W_you ==
    <<"y", "o", "u">>

\* the filler words with the article added
FILLER_with_article ==
    <<W_play, W_music, W_song, W_track, W_please, W_can, W_you,
      <<"t", "h", "e">> >>

\* assistant.py:92
FILLER ==
    <<W_play, W_music, W_song, W_track, W_please, W_can, W_you>>

\* music_player.py:33: the supported extensions
EXT_mp3 ==
    <<".", "m", "p", "3">>
EXT_wav ==
    <<".", "w", "a", "v">>
EXT_ogg ==
    <<".", "o", "g", "g">>
EXT_flac ==
    <<".", "f", "l", "a", "c">>

(* ------------------ inputs: library, utterances, LLM ------------------ *)
\* the files of the music directory
F_jazz ==
    <<"j", "a", "z", "z", "_", "i", "n", "t", "r", "o", ".", "m", "p", "3">>
F_rock ==
    <<"r", "o", "c", "k", "1", ".", "m", "p", "3">>
F_notes ==
    <<"n", "o", "t", "e", "s", ".", "t", "x", "t">>
\* what transcription may return (already stripped, stt.py:109)
T_empty ==
    <<>>
T_hi ==
    <<"h", "i">>
T_play ==
    <<"P", "l", "a", "y", " ", "m", "u", "s", "i", "c">>
T_jazz ==
    <<"p", "l", "a", "y", " ", "t", "h", "e", " ", "j", "a", "z", "z", " ", "s", "o", "n", "g">>
T_mp3 ==
    <<"p", "l", "a", "y", " ", "m", "p", "3", " ", "s", "o", "n", "g">>
T_one ==
    <<"p", "l", "a", "y", " ", "j", "a", "z", "z", " ", "m", "u", "s", "i", "c">>
T_stop ==
    <<"S", "t", "o", "p", " ", "t", "h", "e", " ", "m", "u", "s", "i", "c">>
\* what the model server may answer as message.content
R_blank ==
    <<" ", " ">>
R_ok ==
    <<" ", "o", "k", " ">>

(* ------------------------- MusicPlayer: library ------------------------ *)
\* the printable characters in code-point order (sorted() compares by code point)
CodePoints ==
    <<" ", "!", "#", "$", "%", "&", "'", "(", ")", "*", "+", ",", "-", ".", "/", "0", "1", "2", "3", "4", "5", "6", "7", "8", "9", ":", ";", "<", "=", ">", "?", "@", "A", "B", "C", "D", "E", "F", "G", "H", "I", "J", "K", "L", "M", "N", "O", "P", "Q", "R", "S", "T", "U", "V", "W", "X", "Y", "Z", "[", "]", "^", "_", "a", "b", "c", "d", "e", "f", "g", "h", "i", "j", "k", "l", "m", "n", "o", "p", "q", "r", "s", "t", "u", "v", "w", "x", "y", "z", "{", "|", "}", "~">>

Ord(c) ==
    CHOOSE i \in 1..Len(CodePoints) : CodePoints[i] = c

\* a < b for Python strings
RECURSIVE LexLess(_, _)
LexLess(a, b) ==
    IF a = <<>> THEN b # <<>>
    ELSE IF b = <<>> THEN FALSE
    ELSE IF Head(a) = Head(b) THEN LexLess(Tail(a), Tail(b))
    ELSE Ord(Head(a)) < Ord(Head(b))

\* sorted(S)
RECURSIVE Sorted(_)
Sorted(S) ==
    IF S = {} THEN <<>>
    ELSE LET m == CHOOSE x \in S : \A y \in S \ {x} : LexLess(x, y)
         IN  <<m>> \o Sorted(S \ {m})

EndsWith(s, suf) ==
    /\ Len(s) >= Len(suf)
    /\ SubSeq(s, Len(s) - Len(suf) + 1, Len(s)) = suf

\* the state of the music directory at a call: present, missing, or present
\* but not listable (os.listdir raises)
DirStates ==
    {"ok", "missing", "unreadable"}

Library ==
    {F_jazz, F_rock, F_notes}

\* the listing without the filter on the file extension
get_available_songs_unfiltered(dir, lib) ==
    IF dir = "missing" THEN [raises |-> FALSE, songs |-> <<>>]
    ELSE IF dir = "unreadable" THEN [raises |-> TRUE, songs |-> <<>>]
    ELSE [raises |-> FALSE, songs |-> Sorted(lib)]

\* MusicPlayer.get_available_songs over a music directory holding the files
\* lib; "raises" when os.listdir raises
get_available_songs(dir, lib) ==
    IF dir = "missing" THEN [raises |-> FALSE, songs |-> <<>>]
    ELSE IF dir = "unreadable" THEN [raises |-> TRUE, songs |-> <<>>]
    ELSE [raises |-> FALSE,
          songs |-> Sorted({f \in lib :
                       \E fmt \in {EXT_mp3, EXT_wav, EXT_ogg, EXT_flac} :
                           EndsWith(Lower(f), fmt)})]

\* the search comparing the query with the file name as it is spelt
search_songs_case_sensitive(dir, lib, query) ==
    LET all == get_available_songs(dir, lib)
    IN  [raises |-> all.raises,
         songs |-> SelectSeq(all.songs, LAMBDA song : Contains(Lower(query), song))]

\* a search that returns every song whatever the query
search_songs_any(dir, lib, query) ==
    get_available_songs(dir, lib)

\* MusicPlayer.search_songs
search_songs(dir, lib, query) ==
    LET all == get_available_songs(dir, lib)
    IN  [raises |-> all.raises,
         songs |-> SelectSeq(all.songs, LAMBDA song : Contains(Lower(query), Lower(song)))]

RECURSIVE Join(_, _)
\* sep.join(xs)
Join(sep, xs) ==
    IF xs = <<>> THEN <<>>
    ELSE IF Len(xs) = 1 THEN xs[1]
    ELSE xs[1] \o sep \o Join(sep, Tail(xs))

\* the literal parts of _handle_music_command's replies (assistant.py:98-114)
P_I_FOUND ==
    <<"I", " ", "f", "o", "u", "n", "d", " ">>
P_SONGS ==
    <<" ", "s", "o", "n", "g", "s", ".", " ">>
P_SPECIFY ==
    <<"P", "l", "e", "a", "s", "e", " ", "s", "p", "e", "c", "i", "f", "y", " ", "w", "h", "i", "c", "h", " ", "o", "n", "e", " ", "y", "o", "u", "'", "d", " ", "l", "i", "k", "e", " ", "m", "e", " ", "t", "o", " ", "p", "l", "a", "y", ".">>
P_COULDNT_FIND ==
    <<"I", " ", "c", "o", "u", "l", "d", "n", "'", "t", " ", "f", "i", "n", "d", " ", "a", "n", "y", " ", "s", "o", "n", "g", "s", " ", "m", "a", "t", "c", "h", "i", "n", "g", " ", "'">>
P_QUOTE_DOT ==
    <<"'", ".">>
P_PLAYING ==
    <<"P", "l", "a", "y", "i", "n", "g", " ">>
P_COULDNT_PLAY ==
    <<"C", "o", "u", "l", "d", "n", "'", "t", " ", "p", "l", "a", "y", " ">>
P_MULTIPLE ==
    <<"I", " ", "f", "o", "u", "n", "d", " ", "m", "u", "l", "t", "i", "p", "l", "e", " ", "s", "o", "n", "g", "s", ":", " ">>
P_BE_SPECIFIC ==
    <<"P", "l", "e", "a", "s", "e", " ", "b", "e", " ", "m", "o", "r", "e", " ", "s", "p", "e", "c", "i", "f", "i", "c", ".">>

(* ----------------------- assistant.py: dispatch ------------------------ *)
RECURSIVE StripFiller(_, _)
\* assistant.py:92-93: for w in [...]: lowered = lowered.replace(w, "")
StripFiller(lowered, k) ==
    IF k > Len(FILLER) THEN lowered
    ELSE StripFiller(Replace(lowered, FILLER[k]), k + 1)

\* assistant.py:91-94: the search query of a music-play command
Query(command) ==
    Strip(StripFiller(Lower(command), 1))

\* the classification with the stop test made first
Intent_stop_first(text) ==
    LET tl == Strip(Lower(text))
    IN  IF Contains(W_stop, tl) /\ (Contains(W_music, tl) \/ Contains(W_song, tl))
        THEN "music-stop"
        ELSE IF Contains(W_play, tl) /\ (Contains(W_music, tl) \/ Contains(W_song, tl))
        THEN "music-play"
        ELSE "generic-query"

\* VoiceAssistant.process_command's classification
Intent(text) ==
    LET tl == Strip(Lower(text))
    IN  IF Contains(W_play, tl) /\ (Contains(W_music, tl) \/ Contains(W_song, tl))
        THEN "music-play"
        ELSE IF Contains(W_stop, tl) /\ (Contains(W_music, tl) \/ Contains(W_song, tl))
        THEN "music-stop"
        ELSE "generic-query"

\* VoiceAssistant._handle_music_command: the reply, the song handed to
\* play_song (if any) and whether the call raises; played is play_song's result
handle_music_command(command, dir, lib, played) ==
    LET query == Query(command)
        quiet == [raises |-> FALSE, reply |-> None, play |-> None]
    IN  IF query = <<>>
        THEN LET all == get_available_songs(dir, lib)
             IN  IF all.raises THEN [quiet EXCEPT !.raises = TRUE]
                 ELSE [quiet EXCEPT !.reply = Some(
                          IF all.songs # <<>>
                          THEN P_I_FOUND \o Str(Len(all.songs)) \o P_SONGS
                                 \o P_SPECIFY
                          ELSE NO_MUSIC)]
        ELSE LET m == search_songs(dir, lib, query)
             IN  IF m.raises THEN [quiet EXCEPT !.raises = TRUE]
                 ELSE IF m.songs = <<>>
                 THEN [quiet EXCEPT !.reply = Some(
                          P_COULDNT_FIND \o query \o P_QUOTE_DOT)]
                 ELSE IF Len(m.songs) = 1
                 THEN [quiet EXCEPT
                          !.play = Some(m.songs[1]),
                          !.reply = Some(
                              IF played
                              THEN P_PLAYING \o m.songs[1] \o <<".">>
                              ELSE P_COULDNT_PLAY \o m.songs[1] \o <<".">>)]
                 ELSE [quiet EXCEPT !.reply = Some(
                          P_MULTIPLE
                            \o Prefix(Join(<<",", " ">>, Prefix(m.songs, 5)), 150)
                            \o <<".", " ">> \o P_BE_SPECIFIC)]

(* --------------------------- llm_client.py ----------------------------- *)
\* OllamaClient.__init__'s default; assistant.py does not pass max_retries
max_retries ==
    3

\* what one POST may end in: a connection error or timeout, a response whose
\* body is not the expected JSON, or an HTTP response with a status and content
Responses ==
    {[kind |-> "conn", status |-> 0, content |-> <<>>],
     [kind |-> "badjson", status |-> 200, content |-> <<>>],
     [kind |-> "http", status |-> 500, content |-> <<>>],
     [kind |-> "http", status |-> 200, content |-> <<>>],
     [kind |-> "http", status |-> 200, content |-> R_blank],
     [kind |-> "http", status |-> 200, content |-> R_ok]}

RECURSIVE Pow2(_)
Pow2(n) ==
    IF n = 0 THEN 1 ELSE 2 * Pow2(n - 1)

RECURSIVE Attempt_no_last_wait(_, _, _, _)
\* the retry loop sleeping only between attempts, not after the last one
Attempt_no_last_wait(resp, n, k, waited) ==
    IF k > n
    THEN [reply |-> None, attempts |-> n, waited |-> waited]
    ELSE IF resp[k].kind = "http" /\ resp[k].status = 200
    THEN LET r == Strip(resp[k].content)
         IN  [reply |-> IF r # <<>> THEN Some(r) ELSE None,
              attempts |-> k, waited |-> waited]
    ELSE Attempt_no_last_wait(resp, n, k + 1,
                              waited + (IF k < n THEN Pow2(k) ELSE 0))

RECURSIVE Attempt(_, _, _, _)
\* the loop body of send_message from attempt k on, for a client built with
\* max_retries = n; waited is the seconds slept so far
Attempt(resp, n, k, waited) ==
    IF k > n
    THEN [reply |-> None, attempts |-> n, waited |-> waited]
    ELSE IF resp[k].kind = "http" /\ resp[k].status = 200
    THEN LET r == Strip(resp[k].content)
         IN  [reply |-> IF r # <<>> THEN Some(r) ELSE None,
              attempts |-> k, waited |-> waited]
    ELSE Attempt(resp, n, k + 1, waited + Pow2(k))

\* OllamaClient.send_message against a server answering resp[1], resp[2], ...
send_message(resp, n) ==
    Attempt(resp, n, 1, 0)

\* how the LLM server may answer the attempts of one send_message call:
\* never reachable, or answering at once
Servers ==
    {[k \in 1..max_retries |-> [kind |-> "conn", status |-> 0, content |-> <<>>]],
     [k \in 1..max_retries |-> [kind |-> "http", status |-> 200, content |-> R_ok]]}

Texts ==
    {T_empty, T_hi, T_play, T_one, T_stop}

(* ------------------------------- state --------------------------------- *)
VARIABLES
    pc,         \* where the control thread is in VoiceAssistant.run
    running,    \* VoiceAssistant.running
    exitCause,  \* why the for loop of run() was left ("none" while it runs)
    events,     \* DetectionEvents yielded so far
    extStops,   \* stop() calls made from outside run()
    wake,       \* WakeWordDetector: backend in use and whether its stream is open
    tts,        \* TextToSpeech: _is_speaking, the engine, the speech workers
    music,      \* MusicPlayer: is_playing, current_track, current_process, processes
    user_text,  \* run(): user_text
    reply,      \* run(): the value of process_command(user_text)
    iter,       \* what the current iteration has called so far (history)
    stops,      \* the calls of VoiceAssistant.stop() so far (history)
    preflight,  \* run(): what test_connection() returned, the warnings logged
    ctor,       \* construction (test_system.py): configuration, position, outcome
    stt,        \* a call of SpeechToText.listen_and_transcribe: arguments, locals
    client,     \* a call of OllamaClient.send_message: the server, the outcome
    route,      \* a call of VoiceAssistant.process_command: inputs and effects
    dev,        \* a TextToSpeech and a MusicPlayer called in any order, their workers
    oww         \* a call of WakeWordDetector.listen: the sliding buffer, its history

\* the variables VoiceAssistant.run does not touch
other ==
    <<ctor, stt, client, route, dev, oww>>

vars ==
    <<pc, running, exitCause, events, extStops, wake, tts, music,
      user_text, reply, iter, stops, preflight, other>>

Slots ==
    1..MaxEvents

\* time.sleep(0.5) at assistant.py:149, in tenths of a second
CoolDownTenths ==
    5

FreshIter ==
    [tts_stop |-> 0, music_stop |-> 0, captures |-> 0, heard |-> "nothing",
     dispatches |-> 0,
     said |-> <<>>, llm |-> <<>>, posts |-> 0, played |-> <<>>, slept |-> 0]

\* the positions of the control thread inside the try block of run()
LoopPcs ==
    {"listen", "woken", "stop_tts", "stop_music", "capture", "apologize",
     "dispatch", "respond", "cooldown"}

(* ----------------------------- TextToSpeech ---------------------------- *)
\* a speech worker is producing sound while it is in the engine or in espeak
Audible ==
    {"speaking", "fallback"}

\* engine.stop(): the utterance the engine is speaking is cut; espeak is a
\* separate process the engine does not know
engine_stop(worker) ==
    [i \in DOMAIN worker |-> IF worker[i] = "speaking" THEN "halted" ELSE worker[i]]

\* TextToSpeech.stop
tts_stop(t) ==
    IF t.is_speaking
    THEN [t EXCEPT !.worker = engine_stop(@), !.is_speaking = FALSE]
    ELSE t

\* TextToSpeech.speak(text), interruptible
tts_speak(t, text) ==
    IF Strip(text) = <<>> THEN t
    ELSE LET i == CHOOSE j \in DOMAIN t.worker :
                    t.worker[j] = "none" /\ \A k \in 1..(j - 1) : t.worker[k] # "none"
         IN  [t EXCEPT !.is_speaking = TRUE, !.worker[i] = "speaking"]

(* ----------------------------- MusicPlayer ----------------------------- *)
\* how the playback process and the system answer terminate() and
\* wait(timeout=2): the process exits in time, it does not, or one of the two
\* calls fails with some other exception
Reactions ==
    {"exits", "hangs", "error"}

\* wait(timeout=2) at music_player.py:101, in seconds
StopTimeout ==
    2

\* a started process that has not ended: "stray" is one whose terminate()
\* failed, so that it plays on after stop() returned
Alive ==
    {"running", "stray"}

\* a stop() that signals the current process whatever is_playing says
MusicPlayer_stop_unguarded(m, reaction) ==
    IF m.current_process # 0
    THEN [raises |-> FALSE, calls |-> <<"terminate", "wait">>, waited |-> 0,
          music |-> [m EXCEPT !.proc[m.current_process] = "exited",
                              !.is_playing = FALSE, !.current_track = None]]
    ELSE [raises |-> FALSE, calls |-> <<>>, waited |-> 0, music |-> m]

\* a stop() without the except clauses: a timeout or an error escapes
MusicPlayer_stop_unhandled(m, reaction) ==
    IF m.current_process # 0 /\ m.is_playing
    THEN IF reaction = "exits"
         THEN [raises |-> FALSE, calls |-> <<"terminate", "wait">>, waited |-> 0,
               music |-> [m EXCEPT !.proc[m.current_process] = "exited",
                                   !.is_playing = FALSE, !.current_track = None]]
         ELSE [raises |-> TRUE, calls |-> <<"terminate">>, waited |-> 0, music |-> m]
    ELSE [raises |-> FALSE, calls |-> <<>>, waited |-> 0, music |-> m]

\* MusicPlayer.stop: what it calls on the process, how long it waits, whether
\* it raises, and the player it leaves. kill() is SIGKILL sent to a child that
\* is still there: it takes effect
MusicPlayer_stop(m, reaction) ==
    IF m.current_process # 0 /\ m.is_playing
    THEN LET i == m.current_process
             cleared == [m EXCEPT !.is_playing = FALSE, !.current_track = None]
         IN  CASE reaction = "exits" ->
                    [raises |-> FALSE, calls |-> <<"terminate", "wait">>,
                     waited |-> 0,
                     music |-> [cleared EXCEPT !.proc[i] = "exited"]]
               [] reaction = "hangs" ->
                    [raises |-> FALSE, calls |-> <<"terminate", "wait", "kill">>,
                     waited |-> StopTimeout,
                     music |-> [cleared EXCEPT !.proc[i] = "exited"]]
               [] reaction = "error" ->
                    [raises |-> FALSE, calls |-> <<"terminate">>,
                     waited |-> 0,
                     music |-> [cleared EXCEPT
                                  !.proc[i] = IF @ = "running" THEN "stray" ELSE @]]
    ELSE [raises |-> FALSE, calls |-> <<>>, waited |-> 0, music |-> m]

\* a stop() that clears is_playing and keeps current_track
music_stop_keeps_track(m) ==
    [MusicPlayer_stop(m, "exits").music EXCEPT !.current_track = m.current_track]

\* MusicPlayer.stop when the process exits on terminate()
music_stop(m) ==
    MusicPlayer_stop(m, "exits").music

\* a play_song that stops the current track before it looks for the file
MusicPlayer_play_song_stop_first(m, song, dir, lib, popen, reaction) ==
    LET st == MusicPlayer_stop(m, reaction)
        m1 == st.music
        i == CHOOSE j \in DOMAIN m1.proc :
               m1.proc[j] = "none" /\ \A k \in 1..(j - 1) : m1.proc[k] # "none"
    IN  IF dir # "ok" \/ song \notin lib \/ ~popen
        THEN [ok |-> FALSE, calls |-> st.calls, music |-> m1]
        ELSE [ok |-> TRUE, calls |-> st.calls,
              music |-> [m1 EXCEPT !.current_process = i,
                                   !.proc[i] = "running",
                                   !.monitor[i] = "waiting",
                                   !.is_playing = TRUE,
                                   !.current_track = Some(song)]]

\* MusicPlayer.play_song(song_name) with the directory in state dir; popen is
\* whether subprocess.Popen succeeds, reaction how the current process answers
\* the stop() of line 56
MusicPlayer_play_song(m, song, dir, lib, popen, reaction) ==
    IF dir # "ok" \/ song \notin lib
    THEN [ok |-> FALSE, calls |-> <<>>, music |-> m]
    ELSE LET st == MusicPlayer_stop(m, reaction)
             m1 == st.music
             i == CHOOSE j \in DOMAIN m1.proc :
                    m1.proc[j] = "none" /\ \A k \in 1..(j - 1) : m1.proc[k] # "none"
         IN  IF ~popen THEN [ok |-> FALSE, calls |-> st.calls, music |-> m1]
             ELSE [ok |-> TRUE, calls |-> st.calls,
                   music |-> [m1 EXCEPT !.current_process = i,
                                        !.proc[i] = "running",
                                        !.monitor[i] = "waiting",
                                        !.is_playing = TRUE,
                                        !.current_track = Some(song)]]

\* play_song when the current process exits on terminate()
play_song(m, song, dir, lib, popen) ==
    LET r == MusicPlayer_play_song(m, song, dir, lib, popen, "exits")
    IN  [ok |-> r.ok, music |-> r.music]

\* tts.py:53-55: the engine raised, the worker goes on in _speak_fallback
speak_fallback(t, i) ==
    [t EXCEPT !.worker[i] = "fallback"]

\* tts.py:56-57: the worker ends; finally: self._is_speaking = False
speak_finally(t, i) ==
    [t EXCEPT !.worker[i] = "done", !.is_speaking = FALSE]

\* the playback process ends (end of file, or some time after a failed stop)
process_exit(m, i) ==
    [m EXCEPT !.proc[i] = "exited"]

\* music_player.py:78-82: monitor_playback once wait() has returned
monitor_playback(m, i) ==
    [m EXCEPT !.monitor[i] = "done", !.is_playing = FALSE, !.current_track = None]

(* --------------------------- WakeWordDetector -------------------------- *)
\* close() without its try/except: the error of a second close escapes
close_unguarded(w) ==
    IF w.open THEN [raises |-> FALSE, wake |-> [w EXCEPT !.open = FALSE]]
    ELSE [raises |-> TRUE, wake |-> w]

\* WakeWordDetector.close / SimpleWakeWordDetector.close: stop_stream() on a
\* stream that is no longer open raises, and the except clause logs it
close(w) ==
    IF w.open THEN [raises |-> FALSE, wake |-> [w EXCEPT !.open = FALSE]]
    ELSE [raises |-> FALSE, wake |-> [w EXCEPT !.close_errors = @ + 1]]

(* ------------------------------- Init ---------------------------------- *)
MainInit ==
    /\ pc = "start"
    /\ running = FALSE
    /\ exitCause = "none"
    /\ events = 0
    /\ extStops = 0
    /\ wake \in {[mode |-> md, open |-> TRUE, close_errors |-> 0] :
                    md \in {"oww", "fallback"}}
    /\ tts = [is_speaking |-> FALSE, worker |-> [i \in Slots |-> "none"]]
    /\ music = [is_playing |-> FALSE, current_track |-> None, current_process |-> 0,
                proc |-> [i \in Slots |-> "none"],
                monitor |-> [i \in Slots |-> "none"]]
    /\ user_text = <<>>
    /\ reply = None
    /\ iter = FreshIter
    /\ stops = [calls |-> 0, raised |-> FALSE, fresh |-> FALSE]
    /\ preflight = [result |-> "none", warnings |-> 0]

\* no construction under way
CtorIdle ==
    [cfg |-> {}, at |-> "idle", built |-> 0, result |-> "none"]

\* no call of listen_and_transcribe under way
SttIdle ==
    [pc |-> "idle", rate |-> 0, chunk |-> 0, max_duration |-> 0,
     silence_duration |-> 0, silence_threshold |-> 0,
     num_silent_chunks_required |-> 0, silent_chunks |-> 0, total_chunks |-> 0,
     rms |-> 0, stopped_by |-> "none", wav_tmp |-> FALSE, raised_in |-> "none",
     text |-> <<>>]

\* no call of send_message under way
ClientIdle ==
    [pc |-> "idle", max_retries |-> 0, resp |-> <<>>, reply |-> None,
     attempts |-> 0, waited |-> 0]

\* MusicPlayer.__init__: nothing is playing
PlayerIdle ==
    [is_playing |-> FALSE, current_track |-> None, current_process |-> 0,
     proc |-> [i \in Slots |-> "none"],
     monitor |-> [i \in Slots |-> "none"]]

\* no call of process_command under way
RouteIdle ==
    [pc |-> "idle", text |-> <<>>, dir |-> "ok", lib |-> {}, popen |-> TRUE,
     resp |-> <<>>, before |-> PlayerIdle,
     result |-> [raises |-> FALSE, reply |-> None, music |-> PlayerIdle,
                 handled |-> <<>>, music_stops |-> 0,
                 llm |-> <<>>, posts |-> 0, played |-> <<>>]]

\* the speech workers and playback processes a caller can have started
DevSlots ==
    1..MaxCalls

\* a TextToSpeech and a MusicPlayer on which nothing was called yet
DevIdle ==
    LET t == [is_speaking |-> FALSE, worker |-> [i \in DevSlots |-> "none"]]
        m == [is_playing |-> FALSE, current_track |-> None, current_process |-> 0,
              proc |-> [i \in DevSlots |-> "none"],
              monitor |-> [i \in DevSlots |-> "none"]]
    IN  [n |-> 0, tts |-> t, music |-> m, started |-> <<>>,
         last |-> [op |-> "none", pre |-> [tts |-> t, music |-> m],
                   post |-> [tts |-> t, music |-> m], ok |-> FALSE,
                   raised |-> FALSE, calls |-> <<>>, waited |-> 0,
                   reaction |-> "exits", song |-> <<>>, dir |-> "ok"]]

\* no call of WakeWordDetector.listen under way
OwwIdle ==
    [pc |-> "idle", rate |-> 0, frame |-> 0, buffer_size |-> 0,
     audio_buffer |-> <<>>, frames |-> 0, samples |-> 0, held |-> 0,
     on |-> -1, predictions |-> 0, yields |-> 0,
     sensitivity |-> 0, conf |-> -1, fired |-> FALSE, since |-> -1, gap |-> -1,
     started_at |-> 0, now |-> 0, last_detection_time |-> 0, fired_at |-> <<>>]

\* run() on an assistant whose components exist
Init ==
    /\ MainInit
    /\ ctor = CtorIdle
    /\ stt = SttIdle
    /\ client = ClientIdle
    /\ route = RouteIdle
    /\ dev = DevIdle
    /\ oww = OwwIdle

(* ------------------------ VoiceAssistant.stop -------------------------- *)
\* stop() that forgets to release the detector
stop_without_close ==
    /\ running' = FALSE
    /\ tts' = tts_stop(tts)
    /\ music' = music_stop(music)
    /\ wake' = wake
    /\ stops' = [calls |-> stops.calls + 1, raised |-> stops.raised, fresh |-> TRUE]

\* the body of stop(): running, tts.stop(), music_player.stop(), close()
stop ==
    LET c == close(wake)
    IN  /\ running' = FALSE
        /\ tts' = tts_stop(tts)
        /\ music' = music_stop(music)
        /\ wake' = c.wake
        /\ stops' = [calls |-> stops.calls + 1,
                     raised |-> stops.raised \/ c.raises,
                     fresh |-> TRUE]

\* stop() called by someone other than run() (it is a public method)
ExternalStop ==
    /\ pc # "finally"
    /\ extStops < MaxExtStops
    /\ extStops' = extStops + 1
    /\ stop
    /\ UNCHANGED other
    /\ UNCHANGED preflight
    /\ UNCHANGED <<pc, exitCause, events, user_text, reply, iter>>

(* ------------------------- VoiceAssistant.run -------------------------- *)
\* OllamaClient.test_connection: GET /api/tags answers 200, or answers
\* something else, or the request raises (which test_connection turns into False)
test_connection(answer) ==
    answer = "200"

\* run() giving up when the health check fails
after_preflight_gated(healthy) ==
    IF healthy THEN "listen" ELSE "finally"

\* assistant.py:121-124: where run() goes after the health check
after_preflight(healthy) ==
    "listen"

\* assistant.py:120-122: running = True, then the health check, whose failure
\* is logged as a warning; logged says whether the outcome is kept in preflight
run_start(logged) ==
    /\ pc = "start"
    /\ \E answer \in {"200", "503", "raises"} :
          LET healthy == test_connection(answer)
          IN  /\ pc' = after_preflight(healthy)
              /\ preflight' = IF ~logged THEN preflight
                              ELSE [result |-> IF healthy THEN "ok" ELSE "failed",
                                    warnings |-> IF healthy THEN 0 ELSE 1]
    /\ running' = TRUE
    /\ stops' = [stops EXCEPT !.fresh = FALSE]
    /\ UNCHANGED other
    /\ UNCHANGED <<exitCause, events, extStops, wake, tts, music, user_text,
                   reply, iter>>

\* the start of run(); nothing in the program keeps the health check's outcome
RunStart ==
    run_start(FALSE)

\* the start of run() with the health check's outcome and the log kept
RunStartLogged ==
    run_start(TRUE)

\* listen() yields a DetectionEvent (the fallback detector never reads the
\* stream) and the body of the for loop starts. user_text and reply are the
\* body's locals: an iteration assigns each before it reads it, so the values
\* left by the previous iteration are dead and are not carried along
WakeEvent ==
    /\ pc = "listen"
    /\ events < MaxEvents
    /\ wake.mode = "oww" => wake.open
    /\ pc' = "woken"
    /\ events' = events + 1
    /\ iter' = FreshIter
    /\ user_text' = <<>>
    /\ reply' = None
    /\ UNCHANGED other
    /\ UNCHANGED preflight
    /\ UNCHANGED <<running, exitCause, extStops, wake, tts, music, stops>>

\* wake_word.py:378,409-411: stream.read raises (always on a closed stream) and
\* listen() re-raises into run(), whose try has no handler for it
ListenError ==
    /\ pc = "listen"
    /\ wake.mode = "oww"
    /\ pc' = "finally"
    /\ exitCause' = "listen_error"
    /\ UNCHANGED other
    /\ UNCHANGED preflight
    /\ UNCHANGED <<running, events, extStops, wake, tts, music, user_text,
                   reply, iter, stops>>


\* the loop without the test of line 126: the event is handled whatever
\* running says
CheckRunning_unchecked ==
    /\ pc = "woken"
    /\ pc' = "stop_tts"
    /\ UNCHANGED other
    /\ UNCHANGED preflight
    /\ UNCHANGED <<running, exitCause, events, extStops, wake, tts, music,
                   user_text, reply, iter, stops>>

\* assistant.py:126-127
CheckRunning ==
    /\ pc = "woken"
    /\ IF running
       THEN pc' = "stop_tts" /\ exitCause' = exitCause
       ELSE pc' = "finally" /\ exitCause' = "not_running"
    /\ UNCHANGED other
    /\ UNCHANGED preflight
    /\ UNCHANGED <<running, events, extStops, wake, tts, music, user_text,
                   reply, iter, stops>>

\* assistant.py:130
InterruptSpeech ==
    /\ pc = "stop_tts"
    /\ pc' = "stop_music"
    /\ tts' = tts_stop(tts)
    /\ iter' = [iter EXCEPT !.tts_stop = @ + 1]
    /\ UNCHANGED other
    /\ UNCHANGED preflight
    /\ UNCHANGED <<running, exitCause, events, extStops, wake, music, user_text,
                   reply, stops>>

\* the loop without line 131: capture starts with the music still playing
InterruptMusic_missing ==
    /\ pc = "stop_music"
    /\ pc' = "capture"
    /\ UNCHANGED other
    /\ UNCHANGED preflight
    /\ UNCHANGED <<running, exitCause, events, extStops, wake, tts, music,
                   user_text, reply, iter, stops>>

\* assistant.py:131
InterruptMusic ==
    /\ pc = "stop_music"
    /\ pc' = "capture"
    /\ music' = music_stop(music)
    /\ iter' = [iter EXCEPT !.music_stop = @ + 1]
    /\ UNCHANGED other
    /\ UNCHANGED preflight
    /\ UNCHANGED <<running, exitCause, events, extStops, wake, tts, user_text,
                   reply, stops>>

\* run() without the "if not user_text" test
after_capture_unchecked(raises, text) ==
    IF raises THEN "apologize" ELSE "dispatch"

\* run() without the try/except around listen_and_transcribe
after_capture_unhandled(raises, text) ==
    IF raises THEN "finally" ELSE IF text = <<>> THEN "listen" ELSE "dispatch"

\* where run() goes after listen_and_transcribe: the except clause, the
\* "no speech" continue, or on to process_command
after_capture(raises, text) ==
    IF raises THEN "apologize" ELSE IF text = <<>> THEN "listen" ELSE "dispatch"

\* assistant.py:133-142: listen_and_transcribe() raises or returns a text
Capture ==
    /\ pc = "capture"
    /\ \E raises \in BOOLEAN, text \in Texts :
          /\ pc' = after_capture(raises, text)
          /\ user_text' = IF raises THEN user_text ELSE text
          /\ iter' = [iter EXCEPT !.captures = @ + 1,
                                  !.heard = IF raises THEN "raised"
                                            ELSE IF text = <<>> THEN "empty"
                                            ELSE "text"]
    /\ UNCHANGED other
    /\ UNCHANGED preflight
    /\ UNCHANGED <<running, exitCause, events, extStops, wake, tts, music,
                   reply, stops>>

\* assistant.py:136-138
Apologize ==
    /\ pc = "apologize"
    /\ pc' = "listen"
    /\ tts' = tts_speak(tts, SORRY)
    /\ iter' = [iter EXCEPT !.said = Append(@, SORRY)]
    /\ stops' = [stops EXCEPT !.fresh = FALSE]
    /\ UNCHANGED other
    /\ UNCHANGED preflight
    /\ UNCHANGED <<running, exitCause, events, extStops, wake, music, user_text,
                   reply>>

\* the message sent to the LLM in lower case and stripped, as it is classified
llm_message_lowered(text) ==
    Strip(Lower(text))

\* assistant.py:88: the argument of send_message
llm_message(text) ==
    text

\* VoiceAssistant.process_command on the player state m: what it returns, what
\* it leaves the player in, and the calls it made: to _handle_music_command
\* (handled), to music_player.stop (music_stops), to the LLM client (llm, and
\* the POSTs that made) and to play_song (played)
process_command(m, text, dir, lib, popen, resp) ==
    LET quiet == [raises |-> FALSE, reply |-> None, music |-> m,
                  handled |-> <<>>, music_stops |-> 0,
                  llm |-> <<>>, posts |-> 0, played |-> <<>>]
    IN  IF Intent(text) = "music-play"
        THEN LET want == handle_music_command(text, dir, lib, TRUE)
                 here == [quiet EXCEPT !.handled = <<text>>]
             IN  IF want.raises THEN [here EXCEPT !.raises = TRUE]
                 ELSE IF ~want.play.some THEN [here EXCEPT !.reply = want.reply]
                 ELSE LET p == play_song(m, want.play.text, dir, lib, popen)
                      IN  [here EXCEPT
                             !.reply = handle_music_command(text, dir, lib, p.ok).reply,
                             !.music = p.music,
                             !.played = <<want.play.text>>]
        ELSE IF Intent(text) = "music-stop"
        THEN [quiet EXCEPT !.reply = Some(STOPPING), !.music = music_stop(m),
                           !.music_stops = 1]
        ELSE LET sent == send_message(resp, max_retries)
             IN  [quiet EXCEPT !.reply = sent.reply, !.llm = <<llm_message(text)>>,
                               !.posts = sent.attempts]

\* where run() goes after process_command: an exception leaves the try block
\* (only KeyboardInterrupt has a handler there), a return goes on to speak
after_dispatch(raises) ==
    IF raises THEN "finally" ELSE "respond"

\* what a call of process_command reads from outside the program: the music
\* directory and Popen for a music-play command, the server for a query
DispatchInputs(text) ==
    LET silent == [k \in 1..max_retries |-> [kind |-> "conn", status |-> 0, content |-> <<>>]]
    IN  IF Intent(text) = "music-play"
        THEN {[dir |-> d, popen |-> p, resp |-> silent] :
                 d \in DirStates, p \in BOOLEAN}
        ELSE IF Intent(text) = "music-stop"
        THEN {[dir |-> "ok", popen |-> TRUE, resp |-> silent]}
        ELSE {[dir |-> "ok", popen |-> TRUE, resp |-> r] : r \in Servers}

\* assistant.py:145 (the call of process_command)
Dispatch ==
    /\ pc = "dispatch"
    /\ \E inp \in DispatchInputs(user_text) :
          LET r == process_command(music, user_text, inp.dir, Library, inp.popen,
                                   inp.resp)
          IN  /\ pc' = after_dispatch(r.raises)
              /\ exitCause' = IF pc' = "finally" THEN "dispatch_error" ELSE exitCause
              /\ reply' = IF r.raises THEN reply ELSE r.reply
              /\ music' = r.music
              /\ iter' = [iter EXCEPT !.dispatches = @ + 1,
                                      !.llm = @ \o r.llm,
                                      !.posts = @ + r.posts,
                                      !.played = @ \o r.played]
              /\ stops' = [stops EXCEPT !.fresh = @ /\ r.played = <<>>]
    /\ UNCHANGED other
    /\ UNCHANGED preflight
    /\ UNCHANGED <<running, events, extStops, wake, tts, user_text>>

\* assistant.py:145: reply = process_command(...) or "I'm not sure ..."
spoken_reply(r) ==
    IF Truthy(r) THEN r.text ELSE NOT_SURE

\* assistant.py:145-146 (the "or" fallback and tts.speak)
Respond ==
    /\ pc = "respond"
    /\ pc' = "cooldown"
    /\ tts' = tts_speak(tts, spoken_reply(reply))
    /\ iter' = [iter EXCEPT !.said = Append(@, spoken_reply(reply)), !.slept = 0]
    /\ stops' = [stops EXCEPT !.fresh = FALSE]
    /\ UNCHANGED other
    /\ UNCHANGED preflight
    /\ UNCHANGED <<running, exitCause, events, extStops, wake, music, user_text,
                   reply>>

\* the loop without its sleep
cool_down_skipped(it) ==
    it

\* time.sleep(0.5)
cool_down(it) ==
    [it EXCEPT !.slept = @ + CoolDownTenths]

\* assistant.py:149, then back to the head of the for loop
CoolDown ==
    /\ pc = "cooldown"
    /\ pc' = "listen"
    /\ iter' = cool_down(iter)
    /\ UNCHANGED other
    /\ UNCHANGED preflight
    /\ UNCHANGED <<running, exitCause, events, extStops, wake, tts, music,
                   user_text, reply, stops>>

\* assistant.py:151-152: the interrupt signal reaches the control thread
\* anywhere inside the try block
KeyboardInterrupt ==
    /\ pc \in LoopPcs
    /\ pc' = "finally"
    /\ exitCause' = "KeyboardInterrupt"
    /\ UNCHANGED other
    /\ UNCHANGED preflight
    /\ UNCHANGED <<running, events, extStops, wake, tts, music, user_text,
                   reply, iter, stops>>

\* how run() ends once its finally clause has run
after_finally(cause, stop_raised) ==
    IF cause \in {"listen_error", "dispatch_error"} \/ stop_raised
    THEN "raised" ELSE "returned"

\* assistant.py:153-154: finally: self.stop()
Finally ==
    /\ pc = "finally"
    /\ stop
    /\ pc' = after_finally(exitCause, stops'.raised)
    /\ UNCHANGED other
    /\ UNCHANGED preflight
    /\ UNCHANGED <<exitCause, events, extStops, user_text, reply, iter>>

(* ------------------------- background workers -------------------------- *)
\* tts.py:53-55: the engine raises and the worker falls back to espeak
WorkerFallback(i) ==
    /\ tts.worker[i] = "speaking"
    /\ tts' = speak_fallback(tts, i)
    /\ UNCHANGED other
    /\ UNCHANGED preflight
    /\ UNCHANGED <<pc, running, exitCause, events, extStops, wake, music,
                   user_text, reply, iter, stops>>

\* tts.py:56-57: the worker ends; finally: self._is_speaking = False
WorkerFinish(i) ==
    /\ tts.worker[i] \in {"speaking", "fallback", "halted"}
    /\ tts' = speak_finally(tts, i)
    /\ UNCHANGED other
    /\ UNCHANGED preflight
    /\ UNCHANGED <<pc, running, exitCause, events, extStops, wake, music,
                   user_text, reply, iter, stops>>

\* the player process reaches the end of the file and exits by itself
ProcExit(i) ==
    /\ music.proc[i] \in Alive
    /\ music' = process_exit(music, i)
    /\ UNCHANGED other
    /\ UNCHANGED preflight
    /\ UNCHANGED <<pc, running, exitCause, events, extStops, wake, tts,
                   user_text, reply, iter, stops>>

\* music_player.py:78-82: monitor_playback after wait() returns (the monitor
\* of process i waits for process i: it reads self.current_process as soon as
\* play_song has started it)
MonitorWake(i) ==
    /\ music.monitor[i] = "waiting"
    /\ music.proc[i] = "exited"
    /\ music' = monitor_playback(music, i)
    /\ UNCHANGED other
    /\ UNCHANGED preflight
    /\ UNCHANGED <<pc, running, exitCause, events, extStops, wake, tts,
                   user_text, reply, iter, stops>>

\* every step of the program but the start of run()
LoopStep ==
    \/ WakeEvent
    \/ ListenError
    \/ CheckRunning
    \/ InterruptSpeech
    \/ InterruptMusic
    \/ Capture
    \/ Apologize
    \/ Dispatch
    \/ Respond
    \/ CoolDown
    \/ KeyboardInterrupt
    \/ Finally
    \/ ExternalStop
    \/ \E i \in Slots : WorkerFallback(i)
    \/ \E i \in Slots : WorkerFinish(i)
    \/ \E i \in Slots : ProcExit(i)
    \/ \E i \in Slots : MonitorWake(i)

Next ==
    \/ RunStart
    \/ LoopStep

Spec ==
    Init /\ [][Next]_vars

NextLogged ==
    \/ RunStartLogged
    \/ LoopStep

\* the program with the outcome of the health check on record
SpecLogged ==
    Init /\ [][NextLogged]_vars

\* the control thread is never suspended for ever: once in the finally clause
\* of run() it executes it
FairSpec ==
    Spec /\ WF_vars(Finally)

(* ------------------ construction (test_system.py) ---------------------- *)
\* the keys VoiceAssistant.__init__ reads with cfg[...][...] (KeyError if absent)
RequiredKeys ==
    {"logging.level", "porcupine.keyword_path", "porcupine.sensitivity",
     "recording.rate", "recording.channels", "recording.chunk_size",
     "whisper.model", "ollama.host", "ollama.port", "ollama.endpoint",
     "tts", "music.directory"}

\* the keys it reads with .get(...)
OptionalKeys ==
    {"porcupine.activation_sound", "tts.voice", "tts.rate", "music.player"}

\* the parameters of each component's __init__ (after self), and those
\* without a default
Signature(callee) ==
    CASE callee = "WakeWordDetector" ->
           [params |-> <<"wake_word", "sensitivity", "rate", "channels",
                         "chunk_size", "activation_sound", "input_device">>,
            required |-> {}]
      [] callee = "SpeechToText" ->
           [params |-> <<"model_name", "rate", "channels">>, required |-> {}]
      [] callee = "OllamaClient" ->
           [params |-> <<"host", "port", "endpoint", "max_retries">>,
            required |-> {"host"}]
      [] callee = "TextToSpeech" ->
           [params |-> <<"voice", "rate", "fallback_cmd", "output_device">>,
            required |-> {}]
      [] callee = "MusicPlayer" ->
           [params |-> <<"music_directory", "player_command", "output_device">>,
            required |-> {"music_directory"}]

\* Python's binding of a call's arguments to a signature: TypeError unless
\* every keyword names a parameter, none is bound twice, none required is left
Binds(call, sig) ==
    LET byPosition == {sig.params[i] : i \in 1..call.positional}
        names == {sig.params[i] : i \in 1..Len(sig.params)}
    IN  /\ call.positional <= Len(sig.params)
        /\ call.keywords \subseteq names
        /\ call.keywords \cap byPosition = {}
        /\ sig.required \subseteq (call.keywords \cup byPosition)

\* the component constructions of test_system.py, in order
TestCalls ==
    <<[callee |-> "WakeWordDetector", positional |-> 1, keywords |-> {}, reads |-> {}],
      [callee |-> "SpeechToText", positional |-> 0, keywords |-> {}, reads |-> {}],
      [callee |-> "TextToSpeech", positional |-> 0, keywords |-> {}, reads |-> {}],
      [callee |-> "OllamaClient", positional |-> 1, keywords |-> {}, reads |-> {}]>>

\* the component constructions of VoiceAssistant.__init__, in order
InitCalls ==
    <<[callee |-> "WakeWordDetector", positional |-> 0,
       keywords |-> {"keyword_path", "sensitivity", "rate", "channels",
                     "chunk_size", "activation_sound"},
       reads |-> {"porcupine.keyword_path", "porcupine.sensitivity",
                  "recording.rate", "recording.channels", "recording.chunk_size"}],
      [callee |-> "SpeechToText", positional |-> 0,
       keywords |-> {"model_name", "rate", "channels"},
       reads |-> {"whisper.model", "recording.rate", "recording.channels"}],
      [callee |-> "OllamaClient", positional |-> 0,
       keywords |-> {"host", "port", "endpoint"},
       reads |-> {"ollama.host", "ollama.port", "ollama.endpoint"}],
      [callee |-> "TextToSpeech", positional |-> 0,
       keywords |-> {"voice", "rate"}, reads |-> {"tts"}],
      [callee |-> "MusicPlayer", positional |-> 0,
       keywords |-> {"music_directory", "player_command"},
       reads |-> {"music.directory"}]>>

\* the run() variables, which construction leaves at their initial values
loopVars ==
    <<pc, exitCause, events, extStops, wake, tts, music, user_text, reply,
      iter, stops, preflight>>

\* what construction leaves alone besides the run loop
notCtor ==
    <<stt, client, route, dev, oww>>

\* test_system() starts with some config.yaml in place: a complete one with
\* any of the optional keys, or one that lacks a required key
InitCtor ==
    /\ MainInit
    /\ \E cfg \in {RequiredKeys \cup o : o \in SUBSET OptionalKeys}
                    \cup {RequiredKeys \ {r} : r \in RequiredKeys} :
          ctor = [cfg |-> cfg, at |-> "test", built |-> 0, result |-> "none"]
    /\ stt = SttIdle
    /\ client = ClientIdle
    /\ route = RouteIdle
    /\ dev = DevIdle
    /\ oww = OwwIdle

\* where construction goes after a call was attempted
Constructed(c, at, n, failure) ==
    IF failure # "none"
    THEN [c EXCEPT !.at = "failed", !.result = failure]
    ELSE IF c.built + 1 < n THEN [c EXCEPT !.built = @ + 1]
    ELSE [c EXCEPT !.at = at, !.built = 0]

\* test_system.py:35-51: tests 2 to 5 construct the components directly
TestComponent ==
    /\ ctor.at = "test"
    /\ LET call == TestCalls[ctor.built + 1]
       IN  ctor' = Constructed(ctor, "load", Len(TestCalls),
                      IF Binds(call, Signature(call.callee)) THEN "none"
                      ELSE "TypeError")
    /\ UNCHANGED running
    /\ UNCHANGED loopVars
    /\ UNCHANGED notCtor

\* test_system.py:61 -> assistant.py:21-31: load the YAML, set up logging
LoadConfig ==
    /\ ctor.at = "load"
    /\ ctor' = Constructed(ctor, "init", 1,
                  IF "logging.level" \in ctor.cfg THEN "none" ELSE "KeyError")
    /\ UNCHANGED running
    /\ UNCHANGED loopVars
    /\ UNCHANGED notCtor

\* assistant.py:36-70: the next component is constructed (its arguments are
\* read from the configuration first); after the last, running = False
InitComponent ==
    /\ ctor.at = "init"
    /\ LET call == InitCalls[ctor.built + 1]
           c == Constructed(ctor, "built", Len(InitCalls),
                   IF ~(call.reads \subseteq ctor.cfg) THEN "KeyError"
                   ELSE IF ~Binds(call, Signature(call.callee)) THEN "TypeError"
                   ELSE "none")
       IN  /\ ctor' = IF c.at = "built" THEN [c EXCEPT !.result = "ok"] ELSE c
           /\ running' = IF c.at = "built" THEN FALSE ELSE running
    /\ UNCHANGED loopVars
    /\ UNCHANGED notCtor

\* test_system.py:62-84: the success report and clean-up, or the except clause
TestEnd ==
    /\ ctor.at \in {"built", "failed"}
    /\ ctor' = [ctor EXCEPT !.at = "end"]
    /\ UNCHANGED running
    /\ UNCHANGED loopVars
    /\ UNCHANGED notCtor

NextCtor ==
    \/ TestComponent
    \/ LoadConfig
    \/ InitComponent
    \/ TestEnd

SpecCtor ==
    InitCtor /\ [][NextCtor]_vars

(* ------------------------------- stt.py -------------------------------- *)
\* durations are counted in ticks; this many ticks make one second
Ticks ==
    2

\* the largest sample rate (samples per second) tried
MaxRate ==
    4

\* the largest chunk size (samples per frame) tried
MaxChunk ==
    3

\* the largest max_duration and silence_duration tried, in ticks
MaxDuration ==
    4

\* RMS energies a frame may have, and the thresholds tried against them
Energies ==
    {0, 500, 900}

Thresholds ==
    {0, 500}

\* what model.transcribe may produce for a clip
AsrTexts ==
    {<<>>, <<" ">>, <<" ", "h", "i", " ">>, T_play}

\* stt.py:57: int(self.rate / chunk * silence_duration), silence_duration
\* given in ticks; int() drops the fraction
num_silent_chunks_required(rate, chunk, silence_duration) ==
    (rate * silence_duration) \div (chunk * Ticks)

\* stt.py:68-71: the run of quiet frames after a frame of energy rms
silent_chunks(run, rms, silence_threshold) ==
    IF rms < silence_threshold THEN run + 1 ELSE 0

\* stt.py:74
silence_reached(run, required) ==
    run >= required

\* the ceiling tested with > instead of >=
max_reached_late(total, chunk, rate, max_duration) ==
    total * chunk * Ticks > max_duration * rate

\* the ceiling tested on the frames recorded before the one just read
max_reached_before(total, chunk, rate, max_duration) ==
    (total - 1) * chunk * Ticks >= max_duration * rate

\* stt.py:77: total_chunks * chunk / self.rate >= max_duration, max_duration
\* given in ticks
max_reached(total, chunk, rate, max_duration) ==
    total * chunk * Ticks >= max_duration * rate

\* what a call of listen_and_transcribe leaves alone
notStt ==
    <<loopVars, running, ctor, client, route, dev, oww>>

\* listen_and_transcribe is called on some SpeechToText with some arguments
InitStt ==
    /\ MainInit
    /\ ctor = CtorIdle
    /\ client = ClientIdle
    /\ route = RouteIdle
    /\ dev = DevIdle
    /\ oww = OwwIdle
    /\ \E r \in 1..MaxRate, c \in 1..MaxChunk, d \in 0..MaxDuration,
          sd \in 0..MaxDuration, th \in Thresholds :
          stt = [SttIdle EXCEPT !.pc = "call", !.rate = r, !.chunk = c,
                                !.max_duration = d, !.silence_duration = sd,
                                !.silence_threshold = th]

\* stt.py:42-59: the temporary file is created, then the microphone stream is
\* opened (which may raise: the except clause logs and re-raises)
OpenStream ==
    /\ stt.pc = "call"
    /\ \E opened \in BOOLEAN :
          stt' = IF opened
                 THEN [stt EXCEPT
                         !.pc = "reading", !.wav_tmp = TRUE,
                         !.num_silent_chunks_required =
                             num_silent_chunks_required(stt.rate, stt.chunk,
                                                        stt.silence_duration)]
                 ELSE [stt EXCEPT !.pc = "raised", !.wav_tmp = TRUE,
                                  !.raised_in = "record"]
    /\ UNCHANGED notStt

\* stt.py:61-79: one pass of the while loop, for a frame of energy rms
ReadFrame ==
    /\ stt.pc = "reading"
    /\ \E rms \in Energies :
          LET run == silent_chunks(stt.silent_chunks, rms, stt.silence_threshold)
              total == stt.total_chunks + 1
              by == IF silence_reached(run, stt.num_silent_chunks_required)
                    THEN "silence"
                    ELSE IF max_reached(total, stt.chunk, stt.rate,
                                        stt.max_duration)
                    THEN "max" ELSE "none"
          IN  stt' = [stt EXCEPT !.rms = rms, !.silent_chunks = run,
                                 !.total_chunks = total, !.stopped_by = by,
                                 !.pc = IF by = "none" THEN "reading"
                                        ELSE "captured"]
    /\ UNCHANGED notStt

\* stt.py:62, 95-97: stream.read raises
ReadError ==
    /\ stt.pc = "reading"
    /\ stt' = [stt EXCEPT !.pc = "raised", !.raised_in = "record"]
    /\ UNCHANGED notStt

\* stt.py:82-93: the stream is closed, the frames are written, the path returned
WriteWav ==
    /\ stt.pc = "captured"
    /\ stt' = [stt EXCEPT !.pc = "transcribe"]
    /\ UNCHANGED notStt

\* SpeechToText.transcribe (stt.py:104-117): the backend returns a text, which
\* is stripped, or raises; the finally clause removes the file either way and
\* there is no except clause
Transcribe ==
    /\ stt.pc = "transcribe"
    /\ \/ \E t \in AsrTexts :
             stt' = [stt EXCEPT !.pc = "returned", !.text = Strip(t),
                                !.wav_tmp = FALSE]
       \/ stt' = [stt EXCEPT !.pc = "raised", !.raised_in = "transcribe",
                             !.wav_tmp = FALSE]
    /\ UNCHANGED notStt

NextStt ==
    \/ OpenStream
    \/ ReadFrame
    \/ ReadError
    \/ WriteWav
    \/ Transcribe

SpecStt ==
    InitStt /\ [][NextStt]_vars


(* -------------------- OllamaClient.send_message ------------------------ *)
\* the largest max_retries a client is built with
MaxRetries ==
    3

\* what a call of send_message leaves alone
notClient ==
    <<loopVars, running, ctor, stt, route, dev, oww>>

\* send_message is called on a client built with some max_retries, against a
\* server that would answer the attempts in some way
InitClient ==
    /\ MainInit
    /\ ctor = CtorIdle
    /\ stt = SttIdle
    /\ route = RouteIdle
    /\ dev = DevIdle
    /\ oww = OwwIdle
    /\ \E n \in 0..MaxRetries :
          \E r \in [1..n -> Responses] :
             client = [ClientIdle EXCEPT !.pc = "call", !.max_retries = n,
                                         !.resp = r]

\* llm_client.py:23-54
SendMessage ==
    /\ client.pc = "call"
    /\ LET r == send_message(client.resp, client.max_retries)
       IN  client' = [client EXCEPT !.pc = "done", !.reply = r.reply,
                                    !.attempts = r.attempts,
                                    !.waited = r.waited]
    /\ UNCHANGED notClient

NextClient ==
    SendMessage

SpecClient ==
    InitClient /\ [][NextClient]_vars

(* ----------------- VoiceAssistant.process_command -------------------- *)
\* command texts: both conditions at once, upper case, padding, "play" inside
\* another word, one keyword only, fillers only; file names in mixed case, of
\* 80 characters, and six that share a substring
T_both ==
    <<"s", "t", "o", "p", " ", "a", "n", "d", " ", "p", "l", "a", "y", " ", "a", " ", "s", "o", "n", "g">>
T_shout ==
    <<"P", "L", "A", "Y", " ", "S", "O", "N", "G">>
T_padded ==
    <<" ", " ", "W", "h", "a", "t", " ", "i", "s", " ", "J", "a", "z", "z", "?", " ", " ">>
T_display ==
    <<"d", "i", "s", "p", "l", "a", "y", " ", "s", "o", "n", "g", "s">>
T_stopword ==
    <<"s", "t", "o", "p">>
T_playjazz ==
    <<"p", "l", "a", "y", " ", "j", "a", "z", "z">>
T_stopsong ==
    <<"S", "T", "O", "P", " ", "T", "H", "A", "T", " ", "S", "O", "N", "G">>
T_polite ==
    <<"C", "a", "n", " ", "y", "o", "u", " ", "p", "l", "a", "y", " ", "m", "u", "s", "i", "c", " ", "p", "l", "e", "a", "s", "e">>
F_Jazz ==
    <<"J", "a", "z", "z", "_", "I", "n", "t", "r", "o", ".", "M", "P", "3">>
F_long1 ==
    <<"t", "h", "e", "_", "c", "o", "m", "p", "l", "e", "t", "e", "_", "l", "i", "v", "e", "_", "r", "e", "c", "o", "r", "d", "i", "n", "g", "s", "_", "a", "t", "_", "t", "h", "e", "_", "v", "i", "l", "l", "a", "g", "e", "_", "v", "a", "n", "g", "u", "a", "r", "d", "_", "1", "9", "6", "1", "_", "d", "i", "s", "c", "_", "o", "n", "e", "_", "t", "a", "k", "e", "_", "0", "_", "0", "1", ".", "m", "p", "3">>
F_long2 ==
    <<"t", "h", "e", "_", "c", "o", "m", "p", "l", "e", "t", "e", "_", "l", "i", "v", "e", "_", "r", "e", "c", "o", "r", "d", "i", "n", "g", "s", "_", "a", "t", "_", "t", "h", "e", "_", "v", "i", "l", "l", "a", "g", "e", "_", "v", "a", "n", "g", "u", "a", "r", "d", "_", "1", "9", "6", "1", "_", "d", "i", "s", "c", "_", "o", "n", "e", "_", "t", "a", "k", "e", "_", "0", "_", "0", "2", ".", "m", "p", "3">>
F_mix1 ==
    <<"m", "i", "x", "1", ".", "m", "p", "3">>
F_mix2 ==
    <<"m", "i", "x", "2", ".", "m", "p", "3">>
F_mix3 ==
    <<"m", "i", "x", "3", ".", "m", "p", "3">>
F_mix4 ==
    <<"m", "i", "x", "4", ".", "m", "p", "3">>
F_mix5 ==
    <<"m", "i", "x", "5", ".", "m", "p", "3">>
F_mix6 ==
    <<"m", "i", "x", "6", ".", "m", "p", "3">>

RouterTexts ==
    Texts \cup {T_jazz, T_mp3, T_both, T_shout, T_padded, T_display, T_stopword,
                T_playjazz, T_stopsong, T_polite}

\* contents of the music directory
Libraries ==
    {Library, {}, {F_jazz, F_rock}, {F_Jazz, F_rock}, {F_long1, F_long2},
     {F_mix1, F_mix2, F_mix3, F_mix4, F_mix5, F_mix6}}

\* MusicPlayer with rock1.mp3 playing (after a successful play_song)
PlayerBusy ==
    [PlayerIdle EXCEPT !.is_playing = TRUE, !.current_track = Some(F_rock),
                       !.current_process = 1, !.proc[1] = "running",
                       !.monitor[1] = "waiting"]

\* MusicPlayer after its track has ended and its monitor has cleared the flags
PlayerFinished ==
    [PlayerBusy EXCEPT !.is_playing = FALSE, !.current_track = None,
                       !.proc[1] = "exited", !.monitor[1] = "done"]

\* MusicPlayer whose track has just ended: the monitor has not run yet
PlayerEnded ==
    [PlayerBusy EXCEPT !.proc[1] = "exited"]

\* what a call of process_command leaves alone
notRoute ==
    <<loopVars, running, ctor, stt, client, dev, oww>>

\* process_command is called with some text, on some player, with the music
\* directory, the player program and the LLM server in some condition
InitRoute ==
    /\ MainInit
    /\ ctor = CtorIdle
    /\ stt = SttIdle
    /\ client = ClientIdle
    /\ dev = DevIdle
    /\ oww = OwwIdle
    /\ \E t \in RouterTexts, d \in DirStates, l \in Libraries, p \in BOOLEAN,
          r \in Servers,
          m \in {PlayerIdle, PlayerBusy, PlayerFinished, PlayerEnded} :
          route = [RouteIdle EXCEPT !.pc = "call", !.text = t, !.dir = d,
                                    !.lib = l, !.popen = p, !.resp = r,
                                    !.before = m]

\* assistant.py:75-88
ProcessCommand ==
    /\ route.pc = "call"
    /\ route' = [route EXCEPT
                   !.pc = "done",
                   !.result = process_command(route.before, route.text, route.dir,
                                              route.lib, route.popen, route.resp)]
    /\ UNCHANGED notRoute

NextRoute ==
    ProcessCommand

SpecRoute ==
    InitRoute /\ [][NextRoute]_vars

(* ------------- TextToSpeech and MusicPlayer under any caller ----------- *)
\* what a call on the two objects leaves alone
notDev ==
    <<loopVars, running, ctor, stt, client, route, oww>>

\* the texts given to speak(): a reply, and one that is blank
DevTexts ==
    {STOPPING, <<" ", " ">>}

\* the music directory of the player and the names play_song is given: two of
\* its files and a name it does not hold
DevLibrary ==
    {F_jazz, F_rock}

DevSongs ==
    {F_jazz, F_rock, F_notes}

\* the two objects as they were built, their caller free to call anything
InitDev ==
    /\ MainInit
    /\ ctor = CtorIdle
    /\ stt = SttIdle
    /\ client = ClientIdle
    /\ route = RouteIdle
    /\ dev = DevIdle
    /\ oww = OwwIdle

\* the record of a call that has just returned (or raised)
Called(op, t, m, ok, raised, calls, waited, reaction) ==
    [op |-> op, pre |-> [tts |-> dev.tts, music |-> dev.music],
     post |-> [tts |-> t, music |-> m], ok |-> ok, raised |-> raised,
     calls |-> calls, waited |-> waited, reaction |-> reaction,
     song |-> <<>>, dir |-> "ok"]

\* tts.py:45-64: speak(text)
DevSpeak ==
    /\ dev.n < MaxCalls
    /\ \E text \in DevTexts :
          LET t == tts_speak(dev.tts, text)
          IN  dev' = [dev EXCEPT !.n = @ + 1, !.tts = t,
                        !.last = Called("speak", t, dev.music, TRUE, FALSE,
                                        <<>>, 0, "exits")]
    /\ UNCHANGED notDev

\* tts.py:82-89: stop(), which calls engine.stop() when _is_speaking is set
DevTtsStop ==
    /\ dev.n < MaxCalls
    /\ LET t == tts_stop(dev.tts)
       IN  dev' = [dev EXCEPT !.n = @ + 1, !.tts = t,
                     !.last = Called("tts_stop", t, dev.music, TRUE, FALSE,
                                     IF dev.tts.is_speaking
                                     THEN <<"engine.stop">> ELSE <<>>,
                                     0, "exits")]
    /\ UNCHANGED notDev

\* music_player.py:42-92: play_song(song_name)
DevPlaySong ==
    /\ dev.n < MaxCalls
    /\ \E song \in DevSongs, d \in {"ok", "missing"}, p \in BOOLEAN,
          r \in Reactions :
          LET res == MusicPlayer_play_song(dev.music, song, d, DevLibrary, p, r)
          IN  dev' = [dev EXCEPT
                        !.n = @ + 1, !.music = res.music,
                        !.started = IF res.ok THEN Append(@, song) ELSE @,
                        !.last = [Called("play_song", dev.tts, res.music,
                                         res.ok, FALSE, res.calls, 0, r)
                                    EXCEPT !.song = song, !.dir = d]]
    /\ UNCHANGED notDev

\* music_player.py:94-109: stop()
DevMusicStop ==
    /\ dev.n < MaxCalls
    /\ \E r \in Reactions :
          LET res == MusicPlayer_stop(dev.music, r)
          IN  dev' = [dev EXCEPT
                        !.n = @ + 1, !.music = res.music,
                        !.last = Called("music_stop", dev.tts, res.music, TRUE,
                                        res.raises, res.calls, res.waited, r)]
    /\ UNCHANGED notDev

\* tts.py:53-55: the engine raises inside a speech worker
DevSpeakFallback(i) ==
    /\ dev.tts.worker[i] = "speaking"
    /\ dev' = [dev EXCEPT !.tts = speak_fallback(@, i)]
    /\ UNCHANGED notDev

\* tts.py:56-57: a speech worker ends
DevSpeakFinally(i) ==
    /\ dev.tts.worker[i] \in {"speaking", "fallback", "halted"}
    /\ dev' = [dev EXCEPT !.tts = speak_finally(@, i)]
    /\ UNCHANGED notDev

\* a playback process ends by itself
DevProcessExit(i) ==
    /\ dev.music.proc[i] \in Alive
    /\ dev' = [dev EXCEPT !.music = process_exit(@, i)]
    /\ UNCHANGED notDev

\* music_player.py:78-82: the monitor of process i sees it has ended
DevMonitorPlayback(i) ==
    /\ dev.music.monitor[i] = "waiting"
    /\ dev.music.proc[i] = "exited"
    /\ dev' = [dev EXCEPT !.music = monitor_playback(@, i)]
    /\ UNCHANGED notDev

NextDev ==
    \/ DevSpeak
    \/ DevTtsStop
    \/ DevPlaySong
    \/ DevMusicStop
    \/ \E i \in DevSlots : DevSpeakFallback(i)
    \/ \E i \in DevSlots : DevSpeakFinally(i)
    \/ \E i \in DevSlots : DevProcessExit(i)
    \/ \E i \in DevSlots : DevMonitorPlayback(i)

SpecDev ==
    InitDev /\ [][NextDev]_vars

(* ====================== WakeWordDetector.listen ======================== *)
\* what a call of listen leaves alone
notOww ==
    <<loopVars, running, ctor, stt, client, route, dev>>

\* the lowest sample rate tried: the stream was opened at self.rate
\* (wake_word.py:272-308), which no device accepts below a few kHz
MinWakeRate ==
    2

\* wake_word.py:373: buffer_size = int(self.rate * 0.5)
buffer_size(rate) ==
    rate \div 2

\* the samples as audio_buffer[-n:] selects them
LastSamples(buffer, n) ==
    IF n = 0 \/ n >= Len(buffer) THEN buffer
    ELSE SubSeq(buffer, Len(buffer) - n + 1, Len(buffer))

\* a buffer that is never cut
trim_never(buffer, size) ==
    buffer

\* wake_word.py:386-388: keep only the last buffer_size samples
trim(buffer, size) ==
    IF Len(buffer) > size THEN LastSamples(buffer, size) ELSE buffer

\* wake_word.py:391: the model is consulted when there is enough data
enough(buffer, size) ==
    Len(buffer) >= size

\* confidences the model returns and sensitivities the detector is built
\* with, in tenths
Confidences ==
    {0, 5, 10}

Sensitivities ==
    {0, 5}

\* a detector that also fires at the threshold itself
detected_at_threshold(prediction, sensitivity) ==
    prediction >= sensitivity

\* wake_word.py:397: prediction[self.wake_word] > self.sensitivity
detected(prediction, sensitivity) ==
    prediction > sensitivity

\* listen() is called on a detector whose stream delivers frames of some
\* length at some rate
InitOww ==
    /\ MainInit
    /\ ctor = CtorIdle
    /\ stt = SttIdle
    /\ client = ClientIdle
    /\ route = RouteIdle
    /\ dev = DevIdle
    /\ \E r \in MinWakeRate..MaxWakeRate, c \in 1..MaxChunk,
          sv \in Sensitivities :
          oww = [OwwIdle EXCEPT !.pc = "read", !.rate = r, !.frame = c,
                                !.buffer_size = buffer_size(r),
                                !.sensitivity = sv]

\* wake_word.py:378-388: a frame is read, appended, and the buffer trimmed;
\* the samples are numbered in the order they were read
OwwRead ==
    /\ oww.pc = "read"
    /\ oww.frames < MaxFrames
    /\ LET chunk == [k \in 1..oww.frame |-> oww.samples + k]
           buffer == trim(oww.audio_buffer \o chunk, oww.buffer_size)
       IN  oww' = [oww EXCEPT !.pc = "check", !.audio_buffer = buffer,
                              !.frames = @ + 1, !.samples = @ + oww.frame,
                              !.held = Len(buffer), !.on = -1,
                              !.conf = -1, !.fired = FALSE, !.gap = -1,
                              !.since = IF @ = -1 THEN -1 ELSE @ + oww.frame]
    /\ UNCHANGED notOww

\* wake_word.py:378, 409-411: stream.read raises; listen logs and re-raises
OwwReadError ==
    /\ oww.pc = "read"
    /\ oww' = [oww EXCEPT !.pc = "raised"]
    /\ UNCHANGED notOww

\* wake_word.py:391-407: the buffer is given to the model, which returns a
\* confidence or raises (-1: the error is logged); a prediction above the
\* sensitivity clears the buffer and yields. since counts the samples read
\* after the last firing, gap is its value when the model is consulted
OwwPredict ==
    /\ oww.pc = "check"
    /\ enough(oww.audio_buffer, oww.buffer_size)
    /\ \E prediction \in Confidences \cup {-1} :
          LET fires == prediction # -1 /\ detected(prediction, oww.sensitivity)
          IN  oww' = [oww EXCEPT
                        !.pc = "read", !.on = Len(oww.audio_buffer),
                        !.predictions = @ + 1,
                        !.conf = prediction, !.fired = fires,
                        !.gap = oww.since,
                        !.since = IF fires THEN 0 ELSE @,
                        !.audio_buffer = IF fires THEN <<>> ELSE @,
                        !.yields = IF fires THEN @ + 1 ELSE @]
    /\ UNCHANGED notOww

\* wake_word.py:391: not enough data yet, the next frame is read
OwwSkip ==
    /\ oww.pc = "check"
    /\ ~enough(oww.audio_buffer, oww.buffer_size)
    /\ oww' = [oww EXCEPT !.pc = "read"]
    /\ UNCHANGED notOww

NextOww ==
    \/ OwwRead
    \/ OwwReadError
    \/ OwwPredict
    \/ OwwSkip

SpecOww ==
    InitOww /\ [][NextOww]_vars

(* ================== SimpleWakeWordDetector.listen ====================== *)
\* times are in tenths of a second
\* wake_word.py:139: the interval of the simulated detections, 10 s
FallbackInterval ==
    100

\* wake_word.py:87: self.detection_cooldown = 2.0, which listen() never reads
detection_cooldown ==
    20

\* wake_word.py:145: time.sleep(0.1)
PollDelay ==
    1

\* time.time() when listen() is first resumed: seconds since 1970, so far
\* above the interval
StartTimes ==
    {FallbackInterval + 1, 5 * FallbackInterval}

\* how long the consumer keeps the generator suspended after an event
ConsumerDelays ==
    {0, 3, FallbackInterval - 1, FallbackInterval + 7}

\* a detector that waits for detection_cooldown only
due_after_cooldown(current_time, last) ==
    current_time - last > detection_cooldown

\* wake_word.py:139: current_time - self.last_detection_time > 10
due(current_time, last) ==
    current_time - last > FallbackInterval

\* wake_word.py:86, 128-136: listen() of a new fallback detector is started
InitFallback ==
    /\ MainInit
    /\ ctor = CtorIdle
    /\ stt = SttIdle
    /\ client = ClientIdle
    /\ route = RouteIdle
    /\ dev = DevIdle
    /\ \E t \in StartTimes :
          oww = [OwwIdle EXCEPT !.pc = "poll", !.started_at = t, !.now = t,
                                !.last_detection_time = 0]

\* wake_word.py:138-143: the clock is read and a detection is due: it is
\* stamped with the time read, and the generator yields
FallbackFire ==
    /\ oww.pc = "poll"
    /\ due(oww.now, oww.last_detection_time)
    /\ oww' = [oww EXCEPT !.pc = "yielded", !.last_detection_time = oww.now,
                          !.fired_at = Append(@, oww.now),
                          !.yields = @ + 1]
    /\ UNCHANGED notOww

\* wake_word.py:138-145: no detection is due; time.sleep(0.1), which may
\* take a little longer than asked
FallbackSleep ==
    /\ oww.pc = "poll"
    /\ ~due(oww.now, oww.last_detection_time)
    /\ \E late \in {0, 1} :
          /\ oww.now + PollDelay + late - oww.started_at <= MaxElapsed
          /\ oww' = [oww EXCEPT !.now = @ + PollDelay + late]
    /\ UNCHANGED notOww

\* wake_word.py:143-145: the consumer asks for the next event after some
\* time; the generator goes on with time.sleep(0.1)
FallbackResume ==
    /\ oww.pc = "yielded"
    /\ \E d \in ConsumerDelays :
          /\ oww.now + d + PollDelay - oww.started_at <= MaxElapsed
          /\ oww' = [oww EXCEPT !.pc = "poll", !.now = @ + d + PollDelay]
    /\ UNCHANGED notOww

NextFallback ==
    \/ FallbackFire
    \/ FallbackSleep
    \/ FallbackResume

SpecFallback ==
    InitFallback /\ [][NextFallback]_vars

(* ============================== claims ================================= *)
Terminal ==
    {"returned", "raised"}

\* C1: for every DetectionEvent consumed while running, tts.stop() and
\* music_player.stop() have both been invoked before capture begins (and
\* before anything is captured), whatever the workers are doing.
C1_StopBeforeCapture ==
    (pc = "capture" \/ iter.captures > 0)
        => (iter.tts_stop = 1 /\ iter.music_stop = 1)

\* an event arrived while the responder was mid-utterance: its worker was
\* cut by the stop and capture is about to begin
C1_Witness ==
    /\ pc = "capture"
    /\ iter.captures = 0
    /\ \E i \in Slots : tts.worker[i] = "halted"

\* C2: no error raised inside capture, transcription, dispatch or response
\* ends the main loop; the loop is left only on a shutdown signal.
C2_StageErrorsNeverEndLoop ==
    exitCause \notin {"capture_error", "dispatch_error", "respond_error"}

\* C3: an interrupt signal, from any position of the loop, leads to run()
\* returning; and however the loop was left, when run() is over running is
\* false, stop() has run (speech and playback flags cleared) and the
\* detector's stream is closed.
C3_InterruptStops ==
    /\ [](exitCause = "KeyboardInterrupt" => pc \in {"finally", "returned"})
    /\ [](pc \in Terminal =>
            /\ ~running
            /\ stops.calls >= 1
            /\ ~tts.is_speaking
            /\ ~music.is_playing
            /\ ~wake.open)
    /\ (exitCause = "KeyboardInterrupt" ~> pc = "returned")

\* run() returned after an interrupt that arrived while a reply was spoken
C3_Witness ==
    /\ pc = "returned"
    /\ exitCause = "KeyboardInterrupt"
    /\ \E i \in Slots : tts.worker[i] = "halted"
    /\ events = MaxEvents

\* C4: no call of stop() raises, and each leaves running false, the speech
\* and playback flags cleared and the detector's stream closed; a call that
\* follows another stop() with nothing spoken or played in between changes
\* neither the speech nor the playback state (the repeated close() of the
\* closed stream is absorbed).
C4_StopIdempotent ==
    [][(stops'.calls = stops.calls + 1) =>
          /\ ~stops'.raised
          /\ running' = FALSE
          /\ ~tts'.is_speaking
          /\ ~music'.is_playing
          /\ wake'.open = FALSE
          /\ stops.fresh => (tts' = tts /\ music' = music)]_vars

\* stop() ran twice in a row, the second time on an already closed stream
C4_Witness ==
    /\ stops.calls = 2
    /\ stops.fresh
    /\ wake.close_errors = 1
    /\ pc = "returned"

\* C5: constructing VoiceAssistant with a configuration that has all the
\* required keys succeeds and leaves running = false.
C5_ConstructionSucceeds ==
    (ctor.at \in {"built", "failed", "end"} /\ RequiredKeys \subseteq ctor.cfg)
        => (ctor.result = "ok" /\ ~running)

\* C6: at most one speech worker is producing output at any time.
C6_OneSpeaker ==
    Cardinality({i \in Slots : tts.worker[i] \in Audible}) <= 1

\* C7: when capture yields an empty text the loop is back at listening with
\* no dispatch, no LLM or player call and nothing spoken in that iteration.
C7_EmptyTextSilent ==
    iter.heard = "empty" =>
        /\ pc \in {"listen", "finally"} \cup Terminal
        /\ (exitCause = "none" => pc = "listen")
        /\ iter.dispatches = 0
        /\ iter.llm = <<>>
        /\ iter.played = <<>>
        /\ iter.said = <<>>

C7_Witness ==
    /\ iter.heard = "empty"
    /\ pc = "listen"
    /\ exitCause = "none"

\* C8: when listen_and_transcribe raises, the loop speaks the fixed apology
\* exactly once, dispatches nothing and is back at listening, still running.
C8_CaptureFailureRecovered ==
    iter.heard = "raised" =>
        /\ iter.dispatches = 0
        /\ iter.llm = <<>>
        /\ iter.played = <<>>
        /\ exitCause = "none" =>
              \/ pc = "apologize" /\ iter.said = <<>>
              \/ pc = "listen" /\ iter.said = <<SORRY>>
        /\ Len(iter.said) <= 1

C8_Witness ==
    /\ iter.heard = "raised"
    /\ pc = "listen"
    /\ iter.said = <<SORRY>>
    /\ exitCause = "none"
    /\ \E i \in Slots : tts.worker[i] = "speaking"

\* C9: once process_command has been called for a non-empty text, and unless
\* a shutdown signal intervenes, the iteration goes on to exactly one
\* tts.speak of a non-empty string: the reply, or the fallback phrase when the
\* reply is absent.
C9_DispatchAlwaysSpeaks ==
    (iter.dispatches = 1 /\ exitCause # "KeyboardInterrupt") =>
        \/ pc = "respond" /\ iter.said = <<>>
        \/ /\ Len(iter.said) = 1
           /\ Strip(iter.said[1]) # <<>>
           /\ iter.said[1] = IF Truthy(reply) THEN reply.text ELSE NOT_SURE

\* C10: when the loop is back at listening after speaking a reply, the
\* 0.5 s sleep has been taken since that reply.
C10_CoolDownBeforeRearm ==
    (pc = "listen" /\ iter.dispatches = 1 /\ Len(iter.said) = 1)
        => iter.slept = CoolDownTenths

C10_Witness ==
    /\ pc = "listen"
    /\ iter.dispatches = 1
    /\ iter.said = <<NOT_SURE>>
    /\ iter.slept = CoolDownTenths

\* C11: transcribe fails closed: for every clip, also when the ASR backend
\* raises, the call returns a string and no exception leaves transcribe.
C11_TranscribeFailsClosed ==
    stt.raised_in # "transcribe"

C13_SilenceCoversDuration ==
    stt.stopped_by = "silence"
        => stt.silent_chunks * stt.chunk * Ticks >= stt.silence_duration * stt.rate

\* an attempt that failed as C14 lists: connection error or timeout, or a
\* response whose status is not 200
Fails(r) ==
    r.kind = "conn" \/ (r.kind = "http" /\ r.status # 200)

\* C14: when every attempt fails, send_message makes exactly max_retries POST
\* attempts, returns no reply, and has waited 2^1 + ... + 2^max_retries seconds
\* (that sum is 2^(max_retries + 1) - 2).
C14_RetryBound ==
    (client.pc = "done" /\ \A k \in 1..client.max_retries : Fails(client.resp[k]))
        => /\ client.attempts = client.max_retries
           /\ client.reply = None
           /\ client.waited = 2^(client.max_retries + 1) - 2

C14_Witness ==
    /\ client.pc = "done"
    /\ client.max_retries >= 2
    /\ \A k \in 1..client.max_retries : Fails(client.resp[k])
    /\ client.waited = 2^(client.max_retries + 1) - 2

\* C15: the pre-flight health check does not gate operation: when
\* test_connection() fails at the start of run() the loop still starts listening
\* (with running set), every later generic-query command is still handed to
\* send_message, which makes at least one POST attempt, and the only trace of
\* the failure is one logged warning.
C15_HealthCheckDoesNotGate ==
    /\ [][(pc = "start" /\ preflight'.result = "failed")
             => (pc' = "listen" /\ running')]_vars
    /\ [](preflight.warnings = (IF preflight.result = "failed" THEN 1 ELSE 0))
    /\ []((preflight.result = "failed" /\ iter.dispatches = 1
             /\ Intent(user_text) = "generic-query")
            => (iter.llm = <<user_text>> /\ iter.posts >= 1))

C15_Witness ==
    /\ preflight.result = "failed"
    /\ iter.dispatches = 1
    /\ Intent(user_text) = "generic-query"
    /\ iter.posts >= 1
    /\ pc = "cooldown"

\* text contains the lower-case word w when letter case is ignored
HasWord(w, text) ==
    \E i \in 1..(Len(text) - Len(w) + 1) :
        Lower(SubSeq(text, i, i + Len(w) - 1)) = w

\* the intent the specification assigns to a CommandText
Expected(text) ==
    IF HasWord(W_play, text) /\ (HasWord(W_music, text) \/ HasWord(W_song, text))
    THEN "music-play"
    ELSE IF HasWord(W_stop, text) /\ (HasWord(W_music, text) \/ HasWord(W_song, text))
    THEN "music-stop"
    ELSE "generic-query"

\* the branches of process_command a call went through, seen from its calls
Branches(r) ==
    {b \in {"music-play", "music-stop", "generic-query"} :
        \/ b = "music-play" /\ r.handled # <<>>
        \/ b = "music-stop" /\ r.music_stops > 0
        \/ b = "generic-query" /\ r.llm # <<>>}

\* C16: process_command handles every CommandText as exactly one intent, chosen
\* case-insensitively in fixed precedence: music-play if it contains "play" and
\* ("music" or "song"), otherwise music-stop if it contains "stop" and ("music"
\* or "song"), otherwise generic-query; a text meeting both is music-play.
C16_OneIntentByPrecedence ==
    route.pc = "done" => Branches(route.result) = {Expected(route.text)}

C16_Witness ==
    /\ route.pc = "done"
    /\ HasWord(W_play, route.text) /\ HasWord(W_stop, route.text)
    /\ HasWord(W_song, route.text)
    /\ route.result.handled = <<route.text>>
    /\ route.result.music_stops = 0

\* C17: a generic query is passed verbatim to send_message exactly once and the
\* music player is not touched; for music-play and music-stop the LLM client
\* is never called.
C17_VerbatimToLlm ==
    route.pc = "done"
        => IF Expected(route.text) = "generic-query"
           THEN /\ route.result.llm = <<route.text>>
                /\ route.result.music = route.before
                /\ route.result.played = <<>>
                /\ route.result.music_stops = 0
                /\ route.result.handled = <<>>
           ELSE /\ route.result.llm = <<>>
                /\ route.result.posts = 0

C17_Witness ==
    /\ route.pc = "done"
    /\ route.text = T_padded
    /\ route.before = PlayerBusy
    /\ route.result.llm = <<T_padded>>
    /\ route.result.posts > 0

\* the files of the music directory that count as songs
Available(dir, lib) ==
    IF dir # "ok" THEN {}
    ELSE {f \in lib : \E fmt \in {EXT_mp3, EXT_wav, EXT_ogg, EXT_flac} :
                         EndsWith(Lower(f), fmt)}

\* the reply that gives the number of songs and asks which one to play
CountReply(n) ==
    P_I_FOUND \o Str(n) \o P_SONGS \o P_SPECIFY

\* a text containing "play" and "music" whose residual query is empty was handled
EmptyQueryHandled ==
    /\ route.pc = "done"
    /\ HasWord(W_play, route.text) /\ HasWord(W_music, route.text)
    /\ Query(route.text) = <<>>

\* C18 as stated: for a text containing "play" and "music" whose residual query
\* is empty, the response gives the count of available songs and asks for
\* disambiguation and play_song is never invoked, whatever the library holds.
C18_CountAndAsk ==
    EmptyQueryHandled
        => /\ route.result.played = <<>>
           /\ route.result.reply =
                Some(CountReply(Cardinality(Available(route.dir, route.lib))))

\* C18, amended: play_song is never invoked and the player is left alone; the
\* response gives the count and asks for disambiguation when at least one song
\* is available, and is "No music files found." when none is (empty or missing
\* directory); when the directory cannot be listed the error propagates and
\* there is no response.
C18_CountOrNoMusic ==
    EmptyQueryHandled
        => /\ route.result.played = <<>>
           /\ route.result.music = route.before
           /\ LET n == Cardinality(Available(route.dir, route.lib))
              IN  IF route.dir = "unreadable"
                  THEN route.result.raises /\ route.result.reply = None
                  ELSE /\ ~route.result.raises
                       /\ route.result.reply =
                            Some(IF n > 0 THEN CountReply(n) ELSE NO_MUSIC)

C18_Witness ==
    /\ EmptyQueryHandled
    /\ route.dir = "ok"
    /\ route.lib = {}
    /\ route.result.reply = Some(NO_MUSIC)

\* the songs whose name contains the query when letter case is ignored
Matches(dir, lib, query) ==
    {f \in Available(dir, lib) : HasWord(Lower(query), f)}

\* a music-play text with a non-empty query was handled; its matches
RouteMatches ==
    IF /\ route.pc = "done"
       /\ Expected(route.text) = "music-play"
       /\ Query(route.text) # <<>>
    THEN Matches(route.dir, route.lib, Query(route.text))
    ELSE {}

\* C19 as stated: when the query matches exactly one track, play_song is
\* invoked exactly once with that track's exact file name and the reply
\* confirms playback of that track.
C19_OneMatchPlayed ==
    Cardinality(RouteMatches) = 1
        => LET f == CHOOSE x \in RouteMatches : TRUE
           IN  /\ route.result.played = <<f>>
               /\ route.result.reply = Some(P_PLAYING \o f \o <<".">>)

\* C19, amended: when the query matches exactly one track, play_song is invoked
\* exactly once with that track's exact file name; the reply confirms playback
\* ("Playing X.") when play_song reports success, and then X is the current
\* track, and is "Couldn't play X." when the player could not be started.
C19_OneMatchPlayedOrReported ==
    Cardinality(RouteMatches) = 1
        => LET f == CHOOSE x \in RouteMatches : TRUE
           IN  /\ route.result.played = <<f>>
               /\ IF route.popen
                  THEN /\ route.result.reply = Some(P_PLAYING \o f \o <<".">>)
                       /\ route.result.music.is_playing
                       /\ route.result.music.current_track = Some(f)
                  ELSE /\ route.result.reply = Some(P_COULDNT_PLAY \o f \o <<".">>)
                       /\ ~route.result.music.is_playing

C19_Witness ==
    /\ RouteMatches = {F_Jazz}
    /\ ~route.popen
    /\ route.result.played = <<F_Jazz>>
    /\ route.result.reply = Some(P_COULDNT_PLAY \o F_Jazz \o <<".">>)

RECURSIVE Items(_)
\* the entries of a listing whose separator is ", "
Items(s) ==
    IF \E i \in 1..(Len(s) - 1) : s[i] = "," /\ s[i + 1] = " "
    THEN LET i == CHOOSE j \in 1..(Len(s) - 1) :
                    /\ s[j] = "," /\ s[j + 1] = " "
                    /\ \A k \in 1..(j - 1) : ~(s[k] = "," /\ s[k + 1] = " ")
         IN  <<SubSeq(s, 1, i - 1)>> \o Items(SubSeq(s, i + 2, Len(s)))
    ELSE <<s>>

\* the part of a "multiple songs" reply between its opening and its closing
Listing(r) ==
    SubSeq(r, Len(P_MULTIPLE) + 1, Len(r) - Len(P_BE_SPECIFIC) - 2)

\* C20: when the query matches N > 1 tracks, play_song is not invoked and the
\* response is "I found multiple songs: ", a listing of at most 5 of the
\* matches that is at most 150 characters long (so its last entry may be cut
\* short), and the request to be more specific.
C20_ListAtMostFive ==
    Cardinality(RouteMatches) > 1
        => /\ route.result.played = <<>>
           /\ route.result.music = route.before
           /\ route.result.reply.some
           /\ LET r == route.result.reply.text
                  items == Items(Listing(r))
              IN  /\ SubSeq(r, 1, Len(P_MULTIPLE)) = P_MULTIPLE
                  /\ SubSeq(r, Len(r) - Len(P_BE_SPECIFIC) - 1, Len(r))
                       = <<".", " ">> \o P_BE_SPECIFIC
                  /\ Len(Listing(r)) <= 150
                  /\ Len(Listing(r)) > 0
                  /\ Len(items) <= 5
                  /\ \A i \in 1..(Len(items) - 1) : items[i] \in RouteMatches
                  /\ \E f \in RouteMatches :
                        SubSeq(f, 1, Len(items[Len(items)])) = items[Len(items)]
                  /\ \A i, j \in 1..Len(items) : i # j => items[i] # items[j]

C20_Witness ==
    /\ Cardinality(RouteMatches) = 6
    /\ route.result.played = <<>>
    /\ Len(Items(Listing(route.result.reply.text))) = 5

Q_the_jazz ==
    <<"t", "h", "e", " ", "j", "a", "z", "z">>
R_playing_jazz ==
    <<"P", "l", "a", "y", "i", "n", "g", " ", "j", "a", "z", "z", "_", "i", "n", "t", "r", "o", ".", "m", "p", "3", ".">>
R_no_the_jazz ==
    <<"I", " ", "c", "o", "u", "l", "d", "n", "'", "t", " ", "f", "i", "n", "d", " ", "a", "n", "y", " ", "s", "o", "n", "g", "s", " ", "m", "a", "t", "c", "h", "i", "n", "g", " ", "'", "t", "h", "e", " ", "j", "a", "z", "z", "'", ".">>

\* the scenario: "play the jazz song" was handled with a library holding
\* jazz_intro.mp3 and rock1.mp3, and the player program can be started
JazzScenario ==
    /\ route.pc = "done"
    /\ route.text = T_jazz
    /\ route.dir = "ok"
    /\ route.lib = {F_jazz, F_rock}
    /\ route.popen

\* C21 as stated: for "play the jazz song" with library {jazz_intro.mp3,
\* rock1.mp3}, filler stripping yields the query "the jazz", the search yields
\* the single match jazz_intro.mp3, play_song is invoked with it and the reply
\* is "Playing jazz_intro.mp3.".
C21_JazzIsPlayed ==
    JazzScenario
        => /\ Query(route.text) = Q_the_jazz
           /\ search_songs(route.dir, route.lib, Query(route.text)).songs = <<F_jazz>>
           /\ route.result.played = <<F_jazz>>
           /\ route.result.reply = Some(R_playing_jazz)

\* C21, amended: for "play the jazz song" with library {jazz_intro.mp3,
\* rock1.mp3}, filler stripping yields the query "the jazz"; no track name
\* contains "the jazz", so the search yields no match, play_song is not invoked,
\* the player is left as it was and the reply is "I couldn't find any songs
\* matching 'the jazz'.".
C21_JazzIsNotFound ==
    JazzScenario
        => /\ Query(route.text) = Q_the_jazz
           /\ search_songs(route.dir, route.lib, Query(route.text)).songs = <<>>
           /\ ~route.result.raises
           /\ route.result.played = <<>>
           /\ route.result.music = route.before
           /\ route.result.reply = Some(R_no_the_jazz)

C21_Witness ==
    /\ JazzScenario
    /\ route.before = PlayerIdle
    /\ route.result.handled = <<T_jazz>>
    /\ route.result.reply = Some(R_no_the_jazz)
    /\ route.result.played = <<>>

\* a music-play text with a non-empty query was handled and its search
\* returned no match
NoMatchHandled ==
    /\ route.pc = "done"
    /\ Expected(route.text) = "music-play"
    /\ Query(route.text) # <<>>
    /\ route.dir # "unreadable"
    /\ Matches(route.dir, route.lib, Query(route.text)) = {}

\* C22: for a music-play text whose non-empty stripped query matches no track,
\* the reply is the "not found" message naming the query, play_song is not
\* invoked, and a playback already in progress is left untouched.
C22_NotFoundLeavesPlayback ==
    NoMatchHandled
        => /\ ~route.result.raises
           /\ route.result.reply =
                Some(P_COULDNT_FIND \o Strip(StripFiller(Lower(route.text), 1))
                       \o P_QUOTE_DOT)
           /\ route.result.played = <<>>
           /\ route.result.music_stops = 0
           /\ route.result.music = route.before

C22_Witness ==
    /\ NoMatchHandled
    /\ route.before = PlayerBusy
    /\ route.lib = Library
    /\ route.result.reply = Some(R_no_the_jazz)
    /\ route.result.music.is_playing
    /\ route.result.music.proc[1] = "running"

\* C23: for a music-stop intent process_command invokes music_player.stop()
\* exactly once and returns "Stopping music playback.", whether or not anything
\* is playing; after it returns is_playing is false and current_track is None.
C23_StopOnceAndCleared ==
    (route.pc = "done" /\ Expected(route.text) = "music-stop")
        => /\ ~route.result.raises
           /\ route.result.music_stops = 1
           /\ route.result.reply = Some(STOPPING)
           /\ ~route.result.music.is_playing
           /\ route.result.music.current_track = None
           /\ route.result.played = <<>>
           /\ \A i \in Slots : route.result.music.proc[i] # "running"

C23_Witness ==
    /\ route.pc = "done"
    /\ route.text = T_stopsong
    /\ route.before = PlayerBusy
    /\ route.result.music_stops = 1
    /\ ~route.result.music.is_playing
    /\ route.result.music.proc[1] = "exited"

\* the answer of a stop() that did nothing to player m
Untouched(m) ==
    [raises |-> FALSE, calls |-> <<>>, waited |-> 0, music |-> m]

C25_SpeakingSetsFlag ==
    \A i \in DevSlots : dev.tts.worker[i] = "speaking" => dev.tts.is_speaking

\* C26: in every interleaving of play_song(), stop() and the monitors, while
\* the most recently started process (one no stop() was aimed at) is running,
\* is_playing is true, current_track names its track and it is the process
\* stop() would reach.
C26_NowPlayingFollowsProcess ==
    LET k == Len(dev.started)
    IN  (k > 0 /\ dev.music.proc[k] = "running")
           => /\ dev.music.is_playing
              /\ dev.music.current_track = Some(dev.started[k])
              /\ dev.music.current_process = k

\* C27: at most one playback process started by MusicPlayer is running at any
\* time (processes whose terminate() failed are not even counted).
C27_AtMostOneRunning ==
    Cardinality({i \in DevSlots : dev.music.proc[i] = "running"}) <= 1

\* C28: MusicPlayer.stop() called while a track is marked playing sends
\* terminate to the process, waits up to 2 s and force-kills on timeout; on
\* every path (graceful exit, timeout and kill, error while signalling) it
\* returns without raising, with is_playing false and current_track None.
C28_StopWhilePlaying ==
    (dev.last.op = "music_stop" /\ dev.last.pre.music.is_playing)
        => LET i == dev.last.pre.music.current_process
           IN  /\ i # 0
               /\ ~dev.last.raised
               /\ ~dev.last.post.music.is_playing
               /\ dev.last.post.music.current_track = None
               /\ dev.last.waited <= StopTimeout
               /\ dev.last.calls # <<>> /\ dev.last.calls[1] = "terminate"
               /\ dev.last.reaction = "exits"
                     => /\ dev.last.calls = <<"terminate", "wait">>
                        /\ dev.last.post.music.proc[i] = "exited"
               /\ dev.last.reaction = "hangs"
                     => /\ dev.last.calls = <<"terminate", "wait", "kill">>
                        /\ dev.last.waited = StopTimeout
                        /\ dev.last.post.music.proc[i] = "exited"
               /\ dev.last.reaction = "error"
                     => \A k \in 1..Len(dev.last.calls) : dev.last.calls[k] # "kill"

C28_Witness ==
    /\ dev.last.op = "music_stop"
    /\ dev.last.pre.music.is_playing
    /\ dev.last.pre.music.proc[dev.last.pre.music.current_process] = "running"
    /\ dev.last.reaction = "hangs"
    /\ dev.last.calls = <<"terminate", "wait", "kill">>
    /\ ~dev.last.post.music.is_playing

\* C29: play_song called with a name that is not in the music directory, or
\* with a missing directory, returns False and leaves the player unchanged:
\* the current process is not signalled, is_playing and current_track keep
\* their values.
C29_MissingSongLeavesPlayer ==
    (/\ dev.last.op = "play_song"
     /\ (dev.last.dir = "missing" \/ dev.last.song \notin DevLibrary))
        => /\ ~dev.last.ok
           /\ ~dev.last.raised
           /\ dev.last.calls = <<>>
           /\ dev.last.post = dev.last.pre

C29_Witness ==
    /\ dev.last.op = "play_song"
    /\ dev.last.song = F_notes
    /\ dev.last.dir = "ok"
    /\ dev.last.pre.music.is_playing
    /\ dev.last.pre.music.proc[1] = "running"
    /\ ~dev.last.ok
    /\ dev.last.post.music.is_playing
    /\ dev.last.post.music.proc[1] = "running"

\* C30: in WakeWordDetector.listen, after each frame is appended and trimmed
\* the sliding buffer holds at most buffer_size samples (the latest ones), and
\* the model is evaluated on a frame exactly when the buffer is full (its
\* length equals buffer_size), never on a shorter buffer.
C30_EvaluatedWhenFull ==
    /\ Len(oww.audio_buffer) <= oww.buffer_size
    /\ oww.held <= oww.buffer_size
    /\ oww.pc = "check"
          => /\ oww.held = Len(oww.audio_buffer)
             /\ \A k \in 1..oww.held :
                   oww.audio_buffer[k] = oww.samples - oww.held + k
    /\ (oww.pc = "read" /\ oww.frames > 0)
          => /\ oww.on \in {-1, oww.buffer_size}
             /\ (oww.on # -1) <=> (oww.held = oww.buffer_size)

C30_Witness ==
    /\ oww.pc = "read"
    /\ oww.yields > 0
    /\ oww.frame < oww.buffer_size
    /\ oww.samples > oww.buffer_size
    /\ oww.on = -1
    /\ oww.held < oww.buffer_size

\* C31: WakeWordDetector.listen emits a DetectionEvent exactly when the model
\* confidence on a full buffer is strictly greater than sensitivity; each
\* firing clears the buffer, so the model is not evaluated again (and no second
\* event fires) until buffer_size samples read after the firing are there.
C31_FiresAboveSensitivity ==
    /\ oww.fired => oww.on = oww.buffer_size
    /\ oww.on # -1
          => /\ oww.fired <=> (oww.conf # -1 /\ oww.conf > oww.sensitivity)
             /\ oww.fired => (oww.audio_buffer = <<>> /\ oww.since = 0)
             /\ oww.gap # -1 => oww.gap >= oww.buffer_size
    /\ oww.since # -1 => Len(oww.audio_buffer) <= oww.since

C31_Witness ==
    /\ oww.pc = "read"
    /\ oww.yields = 2
    /\ oww.fired
    /\ oww.gap = oww.buffer_size
    /\ oww.frame < oww.buffer_size
    /\ oww.sensitivity = 5 /\ oww.conf = 10

\* C32: in fallback timer mode the first synthetic DetectionEvent fires as
\* soon as listening starts, and any two consecutive synthetic events are
\* separated by at least the fixed interval, measured between firings,
\* however long the consumer takes to process an event.
C32_FallbackInterval ==
    /\ oww.fired_at # <<>> => oww.fired_at[1] = oww.started_at
    /\ (oww.pc = "yielded" \/ oww.now > oww.started_at) => oww.fired_at # <<>>
    /\ \A k \in 1..(Len(oww.fired_at) - 1) :
          oww.fired_at[k + 1] - oww.fired_at[k] >= FallbackInterval

C32_Witness ==
    /\ oww.pc = "yielded"
    /\ Len(oww.fired_at) = 3
    /\ oww.fired_at[2] - oww.fired_at[1] = FallbackInterval + 1
    /\ oww.fired_at[3] - oww.fired_at[2] > FallbackInterval + 7

\* the attempts of the finished call that were answered with HTTP status 200
Answered200 ==
    {k \in 1..client.max_retries :
        client.resp[k].kind # "conn" /\ client.resp[k].status = 200}

\* C33: an HTTP 200 response on attempt k ends send_message after exactly k
\* attempts, with waits of 2^1 .. 2^(k-1) seconds before it and none after it;
\* the call returns the stripped reply content, or no reply when that content
\* is empty; no attempt is made after a 200 response.
C33_First200EndsCall ==
    (client.pc = "done" /\ Answered200 # {})
        => LET k == CHOOSE j \in Answered200 : \A i \in Answered200 : j <= i
               content == Strip(client.resp[k].content)
           IN  /\ client.attempts = k
               /\ client.waited = 2^k - 2
               /\ client.reply = IF content # <<>> THEN Some(content) ELSE None

\* C34: when running is false as a DetectionEvent is consumed (stop() was
\* called before the event), the loop exits without starting a capture: in
\* that iteration listen_and_transcribe, process_command and tts.speak are
\* never called.
C34_NoCaptureAfterStop ==
    /\ [][(pc = "woken" /\ ~running /\ pc' # pc) => pc' = "finally"]_vars
    /\ [](exitCause = "not_running"
            => /\ pc \in {"finally"} \cup Terminal
               /\ stops.calls >= 1
               /\ iter.tts_stop = 0 /\ iter.music_stop = 0
               /\ iter.captures = 0
               /\ iter.dispatches = 0
               /\ iter.said = <<>>
               /\ iter.llm = <<>> /\ iter.played = <<>>)

C34_Witness ==
    /\ pc = "returned"
    /\ exitCause = "not_running"
    /\ events = 2
    /\ extStops = 1
    /\ iter.captures = 0
    /\ stops.calls = 2

\* C35: every temporary WAV file created by a call of listen_and_transcribe
\* has been removed by the time the call returns or raises, whether recording
\* succeeds, recording fails or transcription fails.
C35_ClipDiscarded ==
    stt.pc \in {"returned", "raised"} => ~stt.wav_tmp

\* ceil(max_duration * rate / chunk) for the call under way, max_duration
\* being kept in ticks
FrameCeiling ==
    (stt.max_duration * stt.rate + stt.chunk * Ticks - 1) \div (stt.chunk * Ticks)

\* the recording of the call under way is over
Recorded ==
    stt.pc \in {"captured", "transcribe", "returned"} \/ stt.raised_in = "transcribe"

\* C36 as stated: for every max_duration, silence_duration and threshold
\* (zero included) and every sequence of frame energies, _record_until_silence
\* records at least one frame and stops after at most
\* ceil(max_duration * rate / chunk) frames.
C36_AtMostCeilingFrames ==
    /\ Recorded => stt.total_chunks >= 1
    /\ stt.total_chunks <= FrameCeiling

\* C36, amended: it records at least one frame and stops after at most
\* max(1, ceil(max_duration * rate / chunk)) frames: a frame is read only
\* while fewer than the ceiling are recorded, except the first, which is
\* always read.
C36_AtMostCeilingOrOneFrame ==
    /\ Recorded => stt.total_chunks >= 1
    /\ stt.total_chunks <= IF FrameCeiling > 1 THEN FrameCeiling ELSE 1
    /\ (stt.pc = "reading" /\ stt.total_chunks >= 1)
          => stt.total_chunks < FrameCeiling

C36_Witness ==
    /\ stt.pc = "captured"
    /\ stt.max_duration = 0
    /\ stt.silent_chunks = 0
    /\ stt.stopped_by = "max"
    /\ stt.total_chunks = 1

====
